---- MODULE Spec2Model ----
(***************************************************************************)
(* A model of the RxNorm lookup client of drug-normalizer                  *)
(* (src/lib/rxnorm-client.ts): fetchWithTimeout, fetchWithRetry,           *)
(* searchDrug, getGenericName, normalizeDrugName, normalizeDrugNameBatch.  *)
(*                                                                         *)
(* Strings are sequences of one-character strings, so that trim() is       *)
(* computed and not assumed.  A message is a sequence of tokens; a         *)
(* template literal is the concatenation of its pieces.  An async function *)
(* is cut at its awaits: one action per stretch of code that runs between  *)
(* two awaits, exception handlers included.                                *)
(***************************************************************************)
EXTENDS Bags, FiniteSets, Integers, Sequences, TLC

(***************************************************************************)
(* Bounds of the model and constants of the program.                       *)
(***************************************************************************)
\* longest batch explored
MaxNames == 2
\* largest config.retryAttempts explored by SpecNormalize
MaxRetryAttempts == 4
\* DEFAULT_RXNORM_CONFIG
DefaultTimeout == 10000
DefaultRetryAttempts == 3
DefaultRetryDelay == 1000
\* the pause of normalizeDrugNameBatch between two items
BatchPause == 100

(***************************************************************************)
(* Strings.                                                                *)
(***************************************************************************)
\* null / undefined where a string is expected; no string of characters
\* equals it, its only element being longer than one character
Null == <<"null">>
Undefined == <<"undefined">>
\* "hs" stands for a lone UTF-16 high surrogate
Whitespace == {" "}

RECURSIVE TrimStart(_)
TrimStart(s) ==
  IF s # <<>> /\ Head(s) \in Whitespace THEN TrimStart(Tail(s)) ELSE s

RECURSIVE TrimEnd(_)
TrimEnd(s) ==
  IF s # <<>> /\ s[Len(s)] \in Whitespace
  THEN TrimEnd(SubSeq(s, 1, Len(s) - 1)) ELSE s

\* String.prototype.trim
Trim(s) == TrimEnd(TrimStart(s))

\* JavaScript truthiness of a value of type string | null | undefined
Truthy(s) == s # Null /\ s # Undefined /\ s # <<>>

\* encodeURIComponent throws URIError on a lone surrogate
EncodeThrows(s) == \E k \in 1..Len(s) : s[k] = "hs"

\* the drug names given to the client
Names == { <<>>, <<" ">>, <<"a">>, <<" ", "b", " ">>, <<"hs">> }
\* the drug names of a batch
BatchNames == { <<>>, <<"a">>, <<" ", "b", " ">> }
\* the drug names of a batch whose whole behaviours are examined
FairNames == { <<>>, <<"a">> }

RECURSIVE SeqsUpTo(_, _)
SeqsUpTo(S, n) ==
  IF n = 0 THEN { <<>> }
  ELSE LET shorter == SeqsUpTo(S, n - 1)
       IN shorter \cup { Append(q, x) : q \in { r \in shorter : Len(r) = n - 1 }, x \in S }

(***************************************************************************)
(* Errors and messages.                                                    *)
(***************************************************************************)
\* an Error object; code "" and statusCode 0 stand for undefined
MakeError(name, message, code, statusCode, drugName) ==
  [name |-> name, message |-> message, code |-> code,
   statusCode |-> statusCode, drugName |-> drugName]

\* new RxNormAPIError(message, code, statusCode, drugName)
RxNormAPIError(message, code, statusCode, drugName) ==
  MakeError("RxNormAPIError", message, code, statusCode, drugName)

\* lastError = null
NoError == MakeError("null", <<>>, "", 0, Undefined)

\* `${error}` of an Error object
ErrorToString(error) == <<error.name, ":">> \o error.message

\* a completed call: it returned `value` or threw `error`
Returned(value) == [threw |-> FALSE, value |-> value, error |-> NoError]
Threw(error) == [threw |-> TRUE, value |-> Null, error |-> error]

(***************************************************************************)
(* The network, as one attempt sees it.                                    *)
(***************************************************************************)
Responses ==
  { [kind |-> "response", status |-> 200, statusText |-> "OK"],
    [kind |-> "response", status |-> 400, statusText |-> "Bad Request"],
    [kind |-> "response", status |-> 499, statusText |-> "Client Closed Request"],
    [kind |-> "response", status |-> 500, statusText |-> "Internal Server Error"] }
\* the timer fires before the response arrives: controller.abort()
Aborted == [kind |-> "abort", status |-> 0, statusText |-> ""]
\* fetch rejects: no connection, DNS, CORS
NetworkFailure == [kind |-> "neterr", status |-> 0, statusText |-> ""]
Outcomes == Responses \cup { Aborted, NetworkFailure }
\* no attempt made yet
NoOutcome == [kind |-> "none", status |-> 0, statusText |-> ""]

\* a slip: the lower bound of the 2xx range excluded
Ok_Above200(response) == response.status > 200 /\ response.status <= 299

\* Response.ok
Ok(response) == response.status >= 200 /\ response.status <= 299

\* a slip: the abort passed on as it came, not classified
fetchWithTimeout_Unclassified(outcome, timeout) ==
  CASE outcome.kind = "response" -> Returned(outcome)
    [] outcome.kind = "abort" ->
         Threw(MakeError("AbortError", <<"The operation was aborted">>, "", 0, Undefined))
    [] OTHER -> Threw(MakeError("TypeError", <<"Failed to fetch">>, "", 0, Undefined))

fetchWithTimeout(outcome, timeout) ==
  CASE outcome.kind = "response" -> Returned(outcome)
    [] outcome.kind = "abort" ->
         Threw(RxNormAPIError(<<"Request timeout after", ToString(timeout), "ms">>,
                              "TIMEOUT", 0, Undefined))
    [] OTHER -> Threw(MakeError("TypeError", <<"Failed to fetch">>, "", 0, Undefined))

\* the try block of one iteration of fetchWithRetry
AttemptTry(outcome, cfg) ==
  LET c == fetchWithTimeout(outcome, cfg.timeout)
  IN IF c.threw THEN c
     ELSE IF ~Ok(c.value)
          THEN Threw(RxNormAPIError(
                 <<"HTTP", ToString(c.value.status), ":", c.value.statusText>>,
                 "HTTP_ERROR", c.value.status, Undefined))
          ELSE c

\* a slip: the lower bound of the 4xx range excluded
IsClientError_Above400(error) ==
  /\ error.name = "RxNormAPIError"
  /\ error.statusCode # 0
  /\ error.statusCode > 400
  /\ error.statusCode < 500

\* the test of the catch block of fetchWithRetry: a 4xx is not retried
IsClientError(error) ==
  /\ error.name = "RxNormAPIError"
  /\ error.statusCode # 0
  /\ error.statusCode >= 400
  /\ error.statusCode < 500

\* a slip: the last failure thrown as it is, not wrapped
MaxRetriesError_LastError(cfg, last) == last

\* the error thrown after the loop of fetchWithRetry
MaxRetriesError(cfg, last) ==
  RxNormAPIError(
    <<"Failed after", ToString(cfg.retryAttempts), "attempts:">>
      \o (IF last = NoError THEN Undefined ELSE last.message),
    "MAX_RETRIES_EXCEEDED", 0, Undefined)

\* a slip: the delay doubled at each attempt, as the comment beside it says
BackoffDelay_Exponential(cfg, att) == cfg.retryDelay * (2 ^ (att - 1))

\* sleep(config.retryDelay * attempt)
BackoffDelay(cfg, att) == cfg.retryDelay * att

(***************************************************************************)
(* Response bodies.  "undecodable": response.json() rejects.  "null": the  *)
(* body is the JSON value null.  Otherwise `group` tells whether the       *)
(* top-level group is present, `listed` whether its array is, and `items`  *)
(* is the array.                                                           *)
(***************************************************************************)
Body(kind, group, listed, items) ==
  [kind |-> kind, group |-> group, listed |-> listed, items |-> items]

\* approximateTerm.json: items are the rxcui of the candidates, in rank order
ApproximateBodies ==
  { Body("undecodable", FALSE, FALSE, <<>>),
    Body("null", FALSE, FALSE, <<>>),
    Body("json", FALSE, FALSE, <<>>),
    Body("json", TRUE, FALSE, <<>>),
    Body("json", TRUE, TRUE, <<>>),
    Body("json", TRUE, TRUE, << <<"2">> >>),
    Body("json", TRUE, TRUE, << <<"2">>, <<"3">> >>),
    Body("json", TRUE, TRUE, << <<>>, <<"3">> >>),
    Body("json", TRUE, TRUE, << Undefined >>),
    Body("json", TRUE, TRUE, << <<" ">> >>) }

\* a concept group of related.json; hasProps: conceptProperties is present
ConceptGroup(tty, hasProps, props) == [tty |-> tty, hasProps |-> hasProps, props |-> props]

\* related.json: items are the concept groups, props the names of a group
RelatedBodies ==
  { Body("undecodable", FALSE, FALSE, <<>>),
    Body("null", FALSE, FALSE, <<>>),
    Body("json", FALSE, FALSE, <<>>),
    Body("json", TRUE, FALSE, <<>>),
    Body("json", TRUE, TRUE, <<>>),
    Body("json", TRUE, TRUE, << ConceptGroup("BN", TRUE, << <<"x">> >>) >>),
    Body("json", TRUE, TRUE, << ConceptGroup("IN", FALSE, <<>>) >>),
    Body("json", TRUE, TRUE, << ConceptGroup("IN", TRUE, <<>>) >>),
    Body("json", TRUE, TRUE, << ConceptGroup("IN", TRUE, << <<>> >>) >>),
    Body("json", TRUE, TRUE, << ConceptGroup("IN", TRUE, << <<"g">> >>) >>),
    Body("json", TRUE, TRUE, << ConceptGroup("BN", TRUE, << <<"x">> >>),
                                ConceptGroup("IN", TRUE, << <<"g">>, <<"h">> >>) >>),
    Body("json", TRUE, TRUE, << ConceptGroup("IN", TRUE, << <<"h">> >>),
                                ConceptGroup("IN", TRUE, << <<"g">> >>) >>) }

\* what `await response.json()` and the reading of `data` throw
JsonError(body) ==
  IF body.kind = "undecodable"
  THEN MakeError("SyntaxError", <<"Unexpected token">>, "", 0, Undefined)
  ELSE MakeError("TypeError", <<"Cannot read properties of null">>, "", 0, Undefined)

(***************************************************************************)
(* searchDrug and getGenericName, around fetchWithRetry.                   *)
(***************************************************************************)
\* a slip: the argument tested as it came, not trimmed
IsBlank_Untrimmed(s) == ~Truthy(s)

\* the guard of searchDrug and of getGenericName
IsBlank(s) == ~Truthy(s) \/ Trim(s) = <<>>

\* what the guard of searchDrug throws
EmptyNameError == RxNormAPIError(<<"Drug name cannot be empty">>, "INVALID_INPUT", 0, Undefined)
\* what the guard of getGenericName throws
EmptyRxcuiError == RxNormAPIError(<<"RxCUI cannot be empty">>, "INVALID_INPUT", 0, Undefined)

\* searchDrug after fetchWithRetry returned: the rest of its try block
SearchDrugBody(body) ==
  IF body.kind # "json" THEN Threw(JsonError(body))
  ELSE IF ~body.group \/ ~body.listed \/ Len(body.items) = 0
       THEN Returned(Null)
       ELSE Returned(body.items[1])

\* a slip: the wrapping error says nothing of the cause
SearchDrugCatch_DropsCause(error, name) ==
  IF error.name = "RxNormAPIError"
  THEN [error EXCEPT !.drugName = name]
  ELSE RxNormAPIError(<<"Unexpected error searching for drug">>, "UNKNOWN_ERROR", 0, name)

\* the catch block of searchDrug
SearchDrugCatch(error, name) ==
  IF error.name = "RxNormAPIError"
  THEN [error EXCEPT !.drugName = name]
  ELSE RxNormAPIError(<<"Unexpected error searching for drug:">> \o ErrorToString(error),
                      "UNKNOWN_ERROR", 0, name)

\* a slip: the last matching group in place of the first
FindIngredientGroup_Last(groups) ==
  IF \E k \in 1..Len(groups) : groups[k].tty = "IN"
  THEN CHOOSE k \in 1..Len(groups) :
         /\ groups[k].tty = "IN"
         /\ \A j \in (k + 1)..Len(groups) : groups[j].tty # "IN"
  ELSE 0

\* Array.prototype.find(group => group.tty === 'IN'): 0 when there is none
FindIngredientGroup(groups) ==
  IF \E k \in 1..Len(groups) : groups[k].tty = "IN"
  THEN CHOOSE k \in 1..Len(groups) :
         /\ groups[k].tty = "IN"
         /\ \A j \in 1..(k - 1) : groups[j].tty # "IN"
  ELSE 0

\* getGenericName after fetchWithRetry returned: the rest of its try block
GetGenericNameBody(body) ==
  IF body.kind # "json" THEN Threw(JsonError(body))
  ELSE IF ~body.group \/ ~body.listed \/ Len(body.items) = 0
       THEN Returned(Null)
       ELSE LET k == FindIngredientGroup(body.items)
            IN IF k = 0 THEN Returned(Null)
               ELSE IF ~body.items[k].hasProps \/ Len(body.items[k].props) = 0
                    THEN Returned(Null)
                    ELSE Returned(body.items[k].props[1])

\* the catch block of getGenericName
GetGenericNameCatch(error) ==
  IF error.name = "RxNormAPIError"
  THEN error
  ELSE RxNormAPIError(<<"Unexpected error getting generic name:">> \o ErrorToString(error),
                      "UNKNOWN_ERROR", 0, Undefined)

\* the catch block of the remote call `c`
RemoteCallCatch(c, error, name) ==
  IF c = "search" THEN SearchDrugCatch(error, name) ELSE GetGenericNameCatch(error)

(***************************************************************************)
(* normalizeDrugName.                                                      *)
(***************************************************************************)
NORMALIZATION_STATUS == [SUCCESS |-> "success", NOT_FOUND |-> "not_found", ERROR |-> "error"]

\* a slip: getGenericName called whatever searchDrug returned
ShouldLookUpIngredient_Always(id) == TRUE

\* normalizeDrugName goes on to getGenericName: the test `if (!rxcui)` fails
ShouldLookUpIngredient(id) == Truthy(id)

\* a NormalizationResult; errorMessage = Undefined: the field is absent
Result(originalName, genericName, id, status, errorMessage) ==
  [originalName |-> originalName, genericName |-> genericName, rxcui |-> id,
   status |-> status, errorMessage |-> errorMessage]

\* a slip: the name as sent to the service, trimmed, in place of the input
NotFoundInRxNorm_Trimmed(name) ==
  Result(Trim(name), Null, Null, NORMALIZATION_STATUS.NOT_FOUND,
         <<"Drug not found in RxNorm database">>)

\* a slip: the missing identifier reported as a failure
NotFoundInRxNorm_AsError(name) ==
  Result(name, Null, Null, NORMALIZATION_STATUS.ERROR,
         <<"Drug not found in RxNorm database">>)

\* normalizeDrugName when searchDrug gave no identifier
NotFoundInRxNorm(name) ==
  Result(name, Null, Null, NORMALIZATION_STATUS.NOT_FOUND,
         <<"Drug not found in RxNorm database">>)

\* a slip: the falsy name that came back kept in the result
NormalizeTail_KeepsEmptyName(name, id, genericName) ==
  IF ~Truthy(genericName)
  THEN Result(name, genericName, id, NORMALIZATION_STATUS.NOT_FOUND,
              <<"Generic name not found for this drug">>)
  ELSE Result(name, genericName, id, NORMALIZATION_STATUS.SUCCESS, Undefined)

\* a slip: the identifier dropped when no generic name came back
NormalizeTail_DropsRxcui(name, id, generic) ==
  IF ~Truthy(generic)
  THEN Result(name, Null, Null, NORMALIZATION_STATUS.NOT_FOUND,
              <<"Generic name not found for this drug">>)
  ELSE Result(name, generic, id, NORMALIZATION_STATUS.SUCCESS, Undefined)

\* a slip: the identifier left out of the result of a success
NormalizeTail_NoRxcui(name, id, generic) ==
  IF ~Truthy(generic)
  THEN Result(name, Null, id, NORMALIZATION_STATUS.NOT_FOUND,
              <<"Generic name not found for this drug">>)
  ELSE Result(name, generic, Null, NORMALIZATION_STATUS.SUCCESS, Undefined)

\* normalizeDrugName after getGenericName returned `genericName`
NormalizeTail(name, id, genericName) ==
  IF ~Truthy(genericName)
  THEN Result(name, Null, id, NORMALIZATION_STATUS.NOT_FOUND,
              <<"Generic name not found for this drug">>)
  ELSE Result(name, genericName, id, NORMALIZATION_STATUS.SUCCESS, Undefined)

\* a slip: only the client's own errors are turned into a result
NormalizeCatch_Rethrows(error, name) ==
  IF error.name = "RxNormAPIError"
  THEN Returned(Result(name, Null, Null, NORMALIZATION_STATUS.ERROR, error.message))
  ELSE Threw(error)

\* a slip: an error result falls back to the input name
NormalizeCatch_KeepsName(error, name) ==
  IF error.name = "RxNormAPIError"
  THEN Returned(Result(name, name, Null, NORMALIZATION_STATUS.ERROR, error.message))
  ELSE Returned(Result(name, name, Null, NORMALIZATION_STATUS.ERROR,
                       <<"Unexpected error:">> \o ErrorToString(error)))

\* the catch block of normalizeDrugName
NormalizeCatch(error, name) ==
  IF error.name = "RxNormAPIError"
  THEN Returned(Result(name, Null, Null, NORMALIZATION_STATUS.ERROR, error.message))
  ELSE Returned(Result(name, Null, Null, NORMALIZATION_STATUS.ERROR,
                       <<"Unexpected error:">> \o ErrorToString(error)))

\* a slip: no try/catch around the two calls
NormalizeEnd_Uncaught(c, name) == c

\* normalizeDrugName, given how its try block ended
NormalizeEnd(c, name) == IF c.threw THEN NormalizeCatch(c.error, name) ELSE c

(***************************************************************************)
(* The CSV utilities (csv-processor).  A row is a function from the names  *)
(* of its columns to cells; a cell has the type of its value and the text  *)
(* String() gives of it.  A Map is the sequence of its entries, <<key,     *)
(* value>>, in insertion order.                                            *)
(***************************************************************************)
\* a value of a CSVRow: string | number | null, or undefined when read
\* from a row that has no such property
StringCell(s) == [type |-> "string", text |-> s]
NumberCell(digits) == [type |-> "number", text |-> digits]
NullCell == [type |-> "null", text |-> Null]
UndefinedCell == [type |-> "undefined", text |-> Undefined]

\* row[columnName]
CellOf(row, columnName) ==
  IF columnName \in DOMAIN row THEN row[columnName] ELSE UndefinedCell

\* !value
Falsy(cell) ==
  \/ cell.type \in {"null", "undefined"}
  \/ cell.type = "string" /\ cell.text = <<>>
  \/ cell.type = "number" /\ cell.text = <<"0">>

\* String(value || '')
StringOrEmpty(cell) == IF Falsy(cell) THEN <<>> ELSE cell.text

\* Map.prototype.has, get and set
MapHas(map, key) == \E j \in 1..Len(map) : map[j][1] = key
MapGet(map, key) ==
  IF MapHas(map, key)
  THEN map[CHOOSE j \in 1..Len(map) : map[j][1] = key][2]
  ELSE Undefined
MapSet(map, key, value) ==
  IF MapHas(map, key)
  THEN [map EXCEPT ![CHOOSE j \in 1..Len(map) : map[j][1] = key] = <<key, value>>]
  ELSE Append(map, <<key, value>>)

GENERIC_NAME_COLUMN == <<"G", "E", "N", "E", "R", "I", "C", "_", "N", "A", "M", "E">>
\* longest table explored
MaxRows == 2

\* the columns of the tables explored
DrugColumn == <<"D", "r", "u", "g">>
IdColumn == <<"I", "d">>

\* 'NOT_FOUND'
NotFoundText == <<"N", "O", "T", "_", "F", "O", "U", "N", "D">>

\* { ...row, [GENERIC_NAME_COLUMN]: genericName }
WithGenericName(row, genericName) ==
  [c \in DOMAIN row \cup {GENERIC_NAME_COLUMN} |->
     IF c = GENERIC_NAME_COLUMN THEN StringCell(genericName) ELSE row[c]]

\* a slip: the cell looked up as it is, not trimmed
addGenericNameColumn_Untrimmed(originalData, columnName, genericNames) ==
  [k \in 1..Len(originalData) |->
     LET row == originalData[k]
         name == StringOrEmpty(CellOf(row, columnName))
         found == MapGet(genericNames, name)
     IN WithGenericName(row, IF Truthy(found) THEN found ELSE NotFoundText)]

addGenericNameColumn(originalData, columnName, genericNames) ==
  [k \in 1..Len(originalData) |->
     LET row == originalData[k]
         name == Trim(StringOrEmpty(CellOf(row, columnName)))
         found == MapGet(genericNames, name)
     IN WithGenericName(row, IF Truthy(found) THEN found ELSE NotFoundText)]

\* the keys of a Set, in insertion order, after add(x)
SetAdd(values, x) ==
  IF \E j \in 1..Len(values) : values[j] = x THEN values ELSE Append(values, x)

\* the Set of extractColumnValues after the first n rows
RECURSIVE ExtractedAfter(_, _, _)
ExtractedAfter(data, columnName, n) ==
  IF n = 0 THEN <<>>
  ELSE LET values == ExtractedAfter(data, columnName, n - 1)
           value == CellOf(data[n], columnName)
       IN IF /\ value.type \notin {"null", "undefined"}
             /\ ~(value.type = "string" /\ value.text = <<>>)
          THEN SetAdd(values, Trim(value.text))
          ELSE values

extractColumnValues(data, columnName) == ExtractedAfter(data, columnName, Len(data))

UpperCase == <<"A", "B", "C", "D", "E", "F", "G", "H", "I", "J", "K", "L", "M", "N", "O", "P", "Q", "R", "S", "T", "U", "V", "W", "X", "Y", "Z">>
LowerCase == <<"a", "b", "c", "d", "e", "f", "g", "h", "i", "j", "k", "l", "m", "n", "o", "p", "q", "r", "s", "t", "u", "v", "w", "x", "y", "z">>

\* String.prototype.toLowerCase
ToLower(s) ==
  [k \in 1..Len(s) |->
     IF \E a \in 1..Len(UpperCase) : UpperCase[a] = s[k]
     THEN LowerCase[CHOOSE a \in 1..Len(UpperCase) : UpperCase[a] = s[k]]
     ELSE s[k]]

\* String.prototype.includes and endsWith
Includes(s, part) ==
  \E k \in 0..(Len(s) - Len(part)) : SubSeq(s, k + 1, k + Len(part)) = part
EndsWith(s, suffix) ==
  Len(s) >= Len(suffix) /\ SubSeq(s, Len(s) - Len(suffix) + 1, Len(s)) = suffix

MEDICATION_COLUMN_KEYWORDS ==
  << <<"m", "e", "d", "i", "c", "a", "t", "i", "o", "n">>,
     <<"d", "r", "u", "g">>,
     <<"m", "e", "d", "i", "c", "i", "n", "e">>,
     <<"d", "e", "s", "c", "r", "i", "p", "t", "i", "o", "n">>,
     <<"n", "a", "m", "e">>,
     <<"m", "e", "d">>,
     <<"r", "x">>,
     <<"p", "r", "e", "s", "c", "r", "i", "p", "t", "i", "o", "n">> >>

\* the least element of a non-empty set of numbers
Least(S) == CHOOSE x \in S : \A y \in S : x <= y

\* a slip: one pass, each keyword tried as a whole name and then as a part
detectMedicationColumn_OnePass(columns) ==
  LET lowerColumns == [j \in 1..Len(columns) |-> ToLower(columns[j])]
      hits == { q \in 1..Len(MEDICATION_COLUMN_KEYWORDS) :
                  \E j \in 1..Len(columns) :
                    Includes(lowerColumns[j], MEDICATION_COLUMN_KEYWORDS[q]) }
  IN IF hits = {} THEN Null
     ELSE LET keyword == MEDICATION_COLUMN_KEYWORDS[Least(hits)]
              whole == { j \in 1..Len(columns) : lowerColumns[j] = keyword }
              part == { j \in 1..Len(columns) : Includes(lowerColumns[j], keyword) }
          IN columns[IF whole # {} THEN Least(whole) ELSE Least(part)]

detectMedicationColumn(columns) ==
  LET lowerColumns == [j \in 1..Len(columns) |-> ToLower(columns[j])]
      \* the keywords some column is equal to, and those some column includes
      exact == { q \in 1..Len(MEDICATION_COLUMN_KEYWORDS) :
                   \E j \in 1..Len(columns) :
                     lowerColumns[j] = MEDICATION_COLUMN_KEYWORDS[q] }
      partial == { q \in 1..Len(MEDICATION_COLUMN_KEYWORDS) :
                     \E j \in 1..Len(columns) :
                       Includes(lowerColumns[j], MEDICATION_COLUMN_KEYWORDS[q]) }
  IN IF exact # {}
     THEN columns[Least({ j \in 1..Len(columns) :
                            lowerColumns[j] = MEDICATION_COLUMN_KEYWORDS[Least(exact)] })]
     ELSE IF partial # {}
     THEN columns[Least({ j \in 1..Len(columns) :
                            Includes(lowerColumns[j], MEDICATION_COLUMN_KEYWORDS[Least(partial)]) })]
     ELSE Null

\* a call of parseCSV or readCSVFile: pending, returned { data, columns },
\* or threw CSVProcessingError(message, code)
CsvPending ==
  [state |-> "pending", data |-> <<>>, columns |-> <<>>, code |-> "", message |-> <<>>]
CsvReturned(data, columns) ==
  [state |-> "returned", data |-> data, columns |-> columns, code |-> "", message |-> <<>>]
CSVProcessingError(message, code) ==
  [state |-> "threw", data |-> <<>>, columns |-> <<>>, code |-> code, message |-> message]

DEFAULT_CSV_CONFIG ==
  [delimiter |-> ",", header |-> TRUE, skipEmptyLines |-> TRUE, dynamicTyping |-> FALSE]

\* parseCSV under the default configuration; `papa` is what Papa.parse makes
\* of the content: a call of the error callback, or results with errors,
\* data and meta.fields
parseCSV(csvContent, papa) ==
  IF ~Truthy(csvContent) \/ Trim(csvContent) = <<>>
  THEN CSVProcessingError(<<"CSV content is empty">>, "EMPTY_CONTENT")
  ELSE IF papa.failed
  THEN CSVProcessingError(<<"Papa Parse error: ", "message">>, "PAPA_PARSE_ERROR")
  ELSE IF papa.errors
  THEN CSVProcessingError(<<"CSV parsing errors: ", "Row ", "row", ": ", "message">>, "PARSE_ERROR")
  ELSE IF Len(papa.data) = 0
  THEN CSVProcessingError(<<"No data found in CSV file">>, "NO_DATA")
  ELSE IF DEFAULT_CSV_CONFIG.header /\ Len(papa.fields) = 0
  THEN CSVProcessingError(<<"No column headers found in CSV file">>, "NO_HEADERS")
  ELSE CsvReturned(papa.data, papa.fields)

\* maxSize of readCSVFile
MaxFileSize == 10485760

CsvSuffix == <<".", "c", "s", "v">>

\* the file type test of readCSVFile
HasCsvType(file) ==
  EndsWith(ToLower(file.name), CsvSuffix) \/ file.type = "text/csv"

\* the checks of readCSVFile before the file is read: what they throw, or
\* CsvPending when the file passes
ReadCSVFileChecks(file) ==
  IF ~file.present
  THEN CSVProcessingError(<<"No file provided">>, "NO_FILE")
  ELSE IF ~HasCsvType(file)
  THEN CSVProcessingError(<<"File must be a CSV file (.csv)">>, "INVALID_FILE_TYPE")
  ELSE IF file.size > MaxFileSize
  THEN CSVProcessingError(<<"File size exceeds ", "10", "MB limit">>, "FILE_TOO_LARGE")
  ELSE CsvPending

\* the catch block of readCSVFile on a rejection of file.text()
FileReadError ==
  CSVProcessingError(<<"Failed to read CSV file: ", "error">>, "FILE_READ_ERROR")

\* a slip: the cells taken as they are, not trimmed
UniqueDrugs_Untrimmed(data, columnName) ==
  LET names == [k \in 1..Len(data) |-> StringOrEmpty(CellOf(data[k], columnName))]
      RECURSIVE Distinct(_)
      Distinct(n) ==
        IF n = 0 THEN <<>>
        ELSE IF Truthy(names[n]) THEN SetAdd(Distinct(n - 1), names[n]) ELSE Distinct(n - 1)
  IN Distinct(Len(data))

\* uniqueDrugs of handleNormalize: the cells of the column as trimmed
\* strings, the empty ones filtered out, each kept once in order of
\* first occurrence
UniqueDrugs(data, columnName) ==
  LET names == [k \in 1..Len(data) |-> Trim(StringOrEmpty(CellOf(data[k], columnName)))]
      RECURSIVE Distinct(_)
      Distinct(n) ==
        IF n = 0 THEN <<>>
        ELSE IF Truthy(names[n]) THEN SetAdd(Distinct(n - 1), names[n]) ELSE Distinct(n - 1)
  IN Distinct(Len(data))

\* a slip: only the names that were normalized get an entry
GenericMapAfter_SuccessOnly(batchResults, n) ==
  LET RECURSIVE Built(_)
      Built(k) ==
        IF k = 0 THEN <<>>
        ELSE IF Truthy(batchResults[k].genericName)
             THEN MapSet(Built(k - 1), batchResults[k].originalName, batchResults[k].genericName)
             ELSE Built(k - 1)
  IN Built(n)

\* genericMap of handleNormalize after the first n results
GenericMapAfter(batchResults, n) ==
  LET RECURSIVE Built(_)
      Built(k) ==
        IF k = 0 THEN <<>>
        ELSE MapSet(Built(k - 1), batchResults[k].originalName,
                    IF Truthy(batchResults[k].genericName)
                    THEN batchResults[k].genericName ELSE NotFoundText)
  IN Built(n)

\* the booleans validateRxNormAPI returns
TrueValue == <<"true">>
FalseValue == <<"false">>

\* validateRxNormAPI after searchDrug settled with `c`: rxcui !== null, and
\* false from the catch block
ValidateEnd(c) ==
  IF c.threw THEN Returned(FalseValue)
  ELSE Returned(IF c.value # Null THEN TrueValue ELSE FalseValue)

(***************************************************************************)
(* State.                                                                  *)
(***************************************************************************)
VARIABLES
  \* normalizeDrugNameBatch: its arguments
  drugNames,      \* the names, in input order
  onProgress,     \* "absent": no callback; "returns": one that returns;
                  \* "throws": one that may throw
  config,         \* the RxNormConfig of the run
  entry,          \* the exported function that was called: "batch",
                  \* "normalize", "searchDrug" or "getGenericName"
  \* normalizeDrugNameBatch: its locals and what it did
  phase,          \* Idle, Announcing, Resolving, Recorded, Completed, Raised
  i,              \* the loop index, from 0
  results,        \* the results pushed so far
  progressCalls,  \* the calls of onProgress so far: <<completed, total, current>>
  pauses,         \* the sleeps between items so far, in ms
  lookups,        \* the arguments of the calls of normalizeDrugName so far
  \* normalizeDrugName and the remote call it is in
  np,             \* idle, enter, fetch, sleep, json, returned, raised
  drugName,       \* its argument
  call,           \* "search": in searchDrug; "related": in getGenericName
  rxcui,          \* what searchDrug returned; the argument of getGenericName
  genericName,    \* what getGenericName returned
  attempt,        \* the loop variable of fetchWithRetry
  lastError,      \* lastError of fetchWithRetry
  normOut,        \* how normalizeDrugName completed
  \* history of the current fetchWithRetry call and normalizeDrugName call
  netAttempts,    \* calls of fetch made by this fetchWithRetry
  lastOutcome,    \* what the latest of them met
  sleeps,         \* the backoff sleeps of this fetchWithRetry, in ms
  fetchEnd,       \* how this fetchWithRetry ended
  callFailure,    \* the error searchDrug or getGenericName threw, if any
  normAttempts,   \* calls of fetch made by this normalizeDrugName
  onlyTimeouts,   \* every call of fetch of this fetchWithRetry met its timer
  requestArg      \* the term or identifier in the url of this fetchWithRetry

VARIABLES
  \* a call of a function of the CSV utilities
  fn,             \* the function called: "none", "addGenericNameColumn",
                  \* "extractColumnValues", "detectMedicationColumn", "readCSVFile"
  fnAt,           \* where the call stands: idle, call, text, done
  columns,        \* detectMedicationColumn: its argument
  detected,       \* detectMedicationColumn: what it returned
  extracted,      \* extractColumnValues: what it returned
  file,           \* readCSVFile: its argument
  csvOut,         \* readCSVFile: how it completed
  \* the state of the page (useState) and the locals of handleNormalize
  csvData,        \* the parsed file, or none; `data` of the CSV utilities
  selectedColumn, \* the chosen column, "" when none; `columnName`
  genericMap,     \* the Map from original name to generic name; `genericNames`
  normalizedData, \* the rows with GENERIC_NAME added, or none
  processing,     \* a normalization is running
  uiError,        \* `error`: the message shown, or null
  hn,             \* handleNormalize: idle, awaiting, done
  closure,        \* the csvData and selectedColumn handleNormalize was created with
  loading,        \* the loadSample and handleFileUpload calls that have not settled
  \* the remote service, and a second call of the same lookup
  service,        \* what the service answers, when it is fixed
  firstOut,       \* how the first of two calls completed
  callNo          \* 1 during the first call, 2 during the second

csvVars == <<fn, fnAt, columns, detected, extracted, file, csvOut>>
pageVars ==
  <<csvData, selectedColumn, genericMap, normalizedData, processing, uiError, hn, closure,
    loading>>
againVars == <<service, firstOut, callNo>>
\* what the lookup client does not touch
outerVars == <<csvVars, pageVars, againVars>>

inputVars == <<drugNames, onProgress, config, entry>>
batchVars == <<phase, i, results, progressCalls, pauses, lookups>>
normVars == <<np, drugName, call, rxcui, genericName, attempt, lastError, normOut>>
histVars == <<netAttempts, lastOutcome, sleeps, fetchEnd, callFailure, normAttempts,
              onlyTimeouts, requestArg>>
vars == <<inputVars, batchVars, normVars, histVars, outerVars>>

DEFAULT_RXNORM_CONFIG ==
  [timeout |-> DefaultTimeout, retryAttempts |-> DefaultRetryAttempts,
   retryDelay |-> DefaultRetryDelay]

\* the configurations a caller may pass
Configs ==
  [timeout : {2500, DefaultTimeout}, retryAttempts : 0..MaxRetryAttempts,
   retryDelay : {250, DefaultRetryDelay}]

\* how a fetchWithRetry call stands: none, active, returned (with the response), threw
FetchState(state, error, response) == [state |-> state, error |-> error, response |-> response]
Pending == Returned(Null)

\* no File
NoPapa == [failed |-> FALSE, errors |-> FALSE, data |-> <<>>, fields |-> <<>>]
NoFile ==
  [present |-> FALSE, name |-> <<>>, type |-> "", size |-> 0, readable |-> FALSE,
   content |-> <<>>, papa |-> NoPapa]
\* csvData = null
NoCsvData == [loaded |-> FALSE, data |-> <<>>, columns |-> <<>>]
\* normalizedData = null
NoRows == [set |-> FALSE, rows |-> <<>>]
\* handleNormalize is not running
NoClosure == [csvData |-> NoCsvData, selectedColumn |-> <<>>]
\* the live service: any answer to any request
AnyService ==
  [fixed |-> FALSE, approx |-> Body("null", FALSE, FALSE, <<>>),
   related |-> Body("null", FALSE, FALSE, <<>>)]

\* no function of the CSV utilities is being called
CsvIdle ==
  /\ fn = "none"
  /\ fnAt = "idle"
  /\ columns = <<>>
  /\ detected = Null
  /\ extracted = <<>>
  /\ file = NoFile
  /\ csvOut = CsvPending

\* the page as it is first rendered
PageIdle ==
  /\ csvData = NoCsvData
  /\ selectedColumn = <<>>
  /\ genericMap = <<>>
  /\ normalizedData = NoRows
  /\ processing = FALSE
  /\ uiError = Null
  /\ hn = "idle"
  /\ closure = NoClosure
  /\ loading = EmptyBag

\* one call, of the live service
OneCall ==
  /\ service = AnyService
  /\ firstOut = Pending
  /\ callNo = 1

(***************************************************************************)
(* normalizeDrugName, cut at its awaits.                                   *)
(***************************************************************************)
\* how the exported function completes when searchDrug or getGenericName, or
\* the try block of normalizeDrugName around them, ended as `c`
Completion(c) ==
  IF entry \in {"searchDrug", "getGenericName"} THEN c
  ELSE IF entry = "validateRxNormAPI" THEN ValidateEnd(c)
  ELSE NormalizeEnd(c, drugName)

\* the function that was called settles
Settle(c) ==
  /\ normOut' = Completion(c)
  /\ np' = IF Completion(c).threw THEN "raised" ELSE "returned"
  /\ callFailure' = c.error

\* a slip: the last attempt left out
LoopTest_Exclusive(att, cfg) == att < cfg.retryAttempts

\* the loop test of fetchWithRetry
LoopTest(att, cfg) == att <= cfg.retryAttempts

\* what the service may do now: anything, or, when it is fixed and free of
\* failures, answer every request with its one document
OutcomesNow ==
  IF service.fixed THEN { r \in Responses : Ok(r) } ELSE Outcomes
ApproximateBodiesNow ==
  IF service.fixed THEN { service.approx } ELSE ApproximateBodies
RelatedBodiesNow ==
  IF service.fixed THEN { service.related } ELSE RelatedBodies

\* fetchWithRetry, called by `c`, throws `error`
FetchThrows(c, error) ==
  /\ fetchEnd' = FetchState("threw", error, NoOutcome)
  /\ Settle(Threw(RemoteCallCatch(c, error, drugName)))

\* a slip: the attempt counter kept outside the function, counting on from
\* one call of fetchWithRetry to the next
BeginFetch_SharedAttempt(c) ==
  /\ call' = c
  /\ attempt' = attempt + 1
  /\ lastError' = NoError
  /\ netAttempts' = 0
  /\ lastOutcome' = NoOutcome
  /\ sleeps' = <<>>
  /\ onlyTimeouts' = TRUE
  /\ IF LoopTest(attempt + 1, config)
     THEN /\ np' = "fetch"
          /\ fetchEnd' = FetchState("active", NoError, NoOutcome)
          /\ UNCHANGED <<normOut, callFailure>>
     ELSE FetchThrows(c, MaxRetriesError(config, NoError))

\* fetchWithRetry is called by `c`: up to its first await
BeginFetch(c) ==
  /\ call' = c
  /\ attempt' = 1
  /\ lastError' = NoError
  /\ netAttempts' = 0
  /\ lastOutcome' = NoOutcome
  /\ sleeps' = <<>>
  /\ onlyTimeouts' = TRUE
  /\ IF LoopTest(1, config)
     THEN /\ np' = "fetch"
          /\ fetchEnd' = FetchState("active", NoError, NoOutcome)
          /\ UNCHANGED <<normOut, callFailure>>
     ELSE FetchThrows(c, MaxRetriesError(config, NoError))

\* the guard of the backoff sleep in the catch block of fetchWithRetry
ShouldBackoff(att, cfg) == att < cfg.retryAttempts

\* normalizeDrugName is called: searchDrug up to fetchWithRetry
SearchDrugEnter ==
  /\ np = "enter"
  /\ entry # "getGenericName"
  /\ rxcui' = Null
  /\ normAttempts' = 0
  /\ IF IsBlank(drugName)
     THEN /\ Settle(Threw(EmptyNameError))
          /\ fetchEnd' = FetchState("none", NoError, NoOutcome)
          /\ requestArg' = Null
          /\ UNCHANGED <<call, attempt, lastError, netAttempts, lastOutcome, sleeps,
                         onlyTimeouts>>
     ELSE IF EncodeThrows(Trim(drugName))
          THEN /\ Settle(Threw(MakeError("URIError", <<"URI malformed">>, "", 0, Undefined)))
               /\ fetchEnd' = FetchState("none", NoError, NoOutcome)
               /\ requestArg' = Null
               /\ UNCHANGED <<call, attempt, lastError, netAttempts, lastOutcome, sleeps,
                              onlyTimeouts>>
          ELSE /\ BeginFetch("search")
               /\ requestArg' = Trim(drugName)
  /\ UNCHANGED <<drugName, genericName, inputVars, outerVars, batchVars>>

\* one attempt of fetchWithRetry: fetchWithTimeout settles, then the code up
\* to the next await
FetchAttempt ==
  /\ np = "fetch"
  /\ \E outcome \in OutcomesNow :
       LET c == AttemptTry(outcome, config)
       IN /\ netAttempts' = netAttempts + 1
          /\ normAttempts' = normAttempts + 1
          /\ lastOutcome' = outcome
          /\ onlyTimeouts' = (onlyTimeouts /\ outcome = Aborted)
          /\ IF ~c.threw
             THEN /\ np' = "json"
                  /\ fetchEnd' = FetchState("returned", NoError, c.value)
                  /\ UNCHANGED <<attempt, lastError, normOut, callFailure>>
             ELSE /\ lastError' = c.error
                  /\ IF IsClientError(c.error)
                     THEN /\ FetchThrows(call, c.error)
                          /\ UNCHANGED attempt
                     ELSE IF ShouldBackoff(attempt, config)
                          THEN /\ np' = "sleep"
                               /\ UNCHANGED <<attempt, fetchEnd, normOut, callFailure>>
                          ELSE /\ attempt' = attempt + 1
                               /\ IF LoopTest(attempt + 1, config)
                                  THEN /\ np' = "fetch"
                                       /\ UNCHANGED <<fetchEnd, normOut, callFailure>>
                                  ELSE FetchThrows(call, MaxRetriesError(config, c.error))
  /\ UNCHANGED <<drugName, call, rxcui, genericName, sleeps, requestArg, inputVars, outerVars,
                 batchVars>>

\* the backoff sleep ends: the next iteration, or the end of the loop
Backoff ==
  /\ np = "sleep"
  /\ sleeps' = Append(sleeps, BackoffDelay(config, attempt))
  /\ attempt' = attempt + 1
  /\ IF LoopTest(attempt + 1, config)
     THEN /\ np' = "fetch"
          /\ UNCHANGED <<fetchEnd, normOut, callFailure>>
     ELSE FetchThrows(call, MaxRetriesError(config, lastError))
  /\ UNCHANGED <<drugName, call, rxcui, genericName, lastError, netAttempts,
                 lastOutcome, normAttempts, onlyTimeouts, requestArg, inputVars, outerVars,
                 batchVars>>

\* searchDrug reads the body; normalizeDrugName goes on to getGenericName
SearchDrugJson ==
  /\ np = "json"
  /\ call = "search"
  /\ \E body \in ApproximateBodiesNow :
       LET c == SearchDrugBody(body)
       IN IF c.threw
          THEN /\ Settle(Threw(SearchDrugCatch(c.error, drugName)))
               /\ UNCHANGED <<call, rxcui, attempt, lastError, netAttempts,
                              lastOutcome, sleeps, fetchEnd, onlyTimeouts, requestArg>>
          ELSE /\ rxcui' = c.value
               /\ IF entry \in {"searchDrug", "validateRxNormAPI"}
                  THEN /\ Settle(c)
                       /\ UNCHANGED <<call, attempt, lastError, netAttempts,
                                      lastOutcome, sleeps, fetchEnd, onlyTimeouts, requestArg>>
                  ELSE IF ~ShouldLookUpIngredient(c.value)
                  THEN /\ Settle(Returned(NotFoundInRxNorm(drugName)))
                       /\ UNCHANGED <<call, attempt, lastError, netAttempts,
                                      lastOutcome, sleeps, fetchEnd, onlyTimeouts, requestArg>>
                  ELSE IF IsBlank(c.value)
                       THEN /\ Settle(Threw(EmptyRxcuiError))
                            /\ UNCHANGED <<call, attempt, lastError, netAttempts,
                                           lastOutcome, sleeps, fetchEnd, onlyTimeouts, requestArg>>
                       ELSE /\ BeginFetch("related")
                            /\ requestArg' = c.value
  /\ UNCHANGED <<drugName, genericName, normAttempts, inputVars, outerVars, batchVars>>

\* getGenericName reads the body; normalizeDrugName builds its result
GetGenericNameJson ==
  /\ np = "json"
  /\ call = "related"
  /\ \E body \in RelatedBodiesNow :
       LET c == GetGenericNameBody(body)
       IN IF c.threw
          THEN /\ Settle(Threw(GetGenericNameCatch(c.error)))
               /\ UNCHANGED genericName
          ELSE /\ genericName' = c.value
               /\ IF entry = "getGenericName"
                  THEN Settle(c)
                  ELSE Settle(Returned(NormalizeTail(drugName, rxcui, c.value)))
  /\ UNCHANGED <<drugName, call, rxcui, attempt, lastError, netAttempts, lastOutcome,
                 sleeps, fetchEnd, normAttempts, onlyTimeouts, requestArg, inputVars, outerVars,
                 batchVars>>

\* getGenericName is called by itself: up to fetchWithRetry
GetGenericNameEnter ==
  /\ np = "enter"
  /\ entry = "getGenericName"
  /\ normAttempts' = 0
  /\ IF IsBlank(rxcui)
     THEN /\ Settle(Threw(EmptyRxcuiError))
          /\ fetchEnd' = FetchState("none", NoError, NoOutcome)
          /\ requestArg' = Null
          /\ UNCHANGED <<call, attempt, lastError, netAttempts, lastOutcome, sleeps,
                         onlyTimeouts>>
     ELSE /\ BeginFetch("related")
          /\ requestArg' = rxcui
  /\ UNCHANGED <<drugName, rxcui, genericName, inputVars, outerVars, batchVars>>

(***************************************************************************)
(* One call of normalizeDrugName, under any configuration.                 *)
(***************************************************************************)
InitNormalize ==
  /\ drugNames = <<>>
  /\ onProgress = "absent"
  /\ config \in Configs
  /\ entry = "normalize"
  /\ phase = "Idle"
  /\ i = 0
  /\ results = <<>>
  /\ progressCalls = <<>>
  /\ pauses = <<>>
  /\ lookups = <<>>
  /\ np = "enter"
  /\ drugName \in Names
  /\ call = "none"
  /\ rxcui = Null
  /\ genericName = Null
  /\ attempt = 0
  /\ lastError = NoError
  /\ normOut = Pending
  /\ netAttempts = 0
  /\ lastOutcome = NoOutcome
  /\ sleeps = <<>>
  /\ fetchEnd = FetchState("none", NoError, NoOutcome)
  /\ callFailure = NoError
  /\ normAttempts = 0
  /\ onlyTimeouts = TRUE
  /\ requestArg = Null
  /\ CsvIdle
  /\ PageIdle
  /\ OneCall

NextNormalize ==
  \/ SearchDrugEnter
  \/ FetchAttempt
  \/ Backoff
  \/ SearchDrugJson
  \/ GetGenericNameJson

SpecNormalize == InitNormalize /\ [][NextNormalize]_vars

(***************************************************************************)
(* One call of normalizeDrugName as the event loop runs it.  Every fetch   *)
(* settles, its timer sees to that, and every sleep ends.  The timer of an *)
(* attempt is cleared as soon as fetch resolves, that is, when the headers *)
(* of the response are there: response.json() reads the body afterwards    *)
(* with no timer set and no abort pending, and settles only if the service *)
(* sends the body to its end.                                              *)
(***************************************************************************)
\* the service never finishes the body: `await response.json()` stays
\* pending for good
BodyNeverArrives ==
  /\ np = "json"
  /\ np' = "stalled"
  /\ UNCHANGED <<drugName, call, rxcui, genericName, attempt, lastError, normOut, histVars,
                 inputVars, outerVars, batchVars>>

NextNormalizeLive ==
  \/ SearchDrugEnter
  \/ FetchAttempt
  \/ Backoff
  \/ SearchDrugJson
  \/ GetGenericNameJson
  \/ BodyNeverArrives

FairNormalize == InitNormalize /\ [][NextNormalizeLive]_vars /\ WF_vars(NextNormalizeLive)

(***************************************************************************)
(* One call of any of the three exported lookups: normalizeDrugName,       *)
(* searchDrug or getGenericName, under any configuration.                  *)
(***************************************************************************)
\* the identifiers given to getGenericName
Identifiers == { <<>>, <<" ">>, <<"2">> }

InitLookup ==
  /\ drugNames = <<>>
  /\ onProgress = "absent"
  /\ config \in Configs
  /\ entry \in {"normalize", "searchDrug", "getGenericName"}
  /\ phase = "Idle"
  /\ i = 0
  /\ results = <<>>
  /\ progressCalls = <<>>
  /\ pauses = <<>>
  /\ lookups = <<>>
  /\ np = "enter"
  /\ IF entry = "getGenericName"
     THEN drugName = Null /\ rxcui \in Identifiers
     ELSE drugName \in Names /\ rxcui = Null
  /\ call = "none"
  /\ genericName = Null
  /\ attempt = 0
  /\ lastError = NoError
  /\ normOut = Pending
  /\ netAttempts = 0
  /\ lastOutcome = NoOutcome
  /\ sleeps = <<>>
  /\ fetchEnd = FetchState("none", NoError, NoOutcome)
  /\ callFailure = NoError
  /\ normAttempts = 0
  /\ onlyTimeouts = TRUE
  /\ requestArg = Null
  /\ CsvIdle
  /\ PageIdle
  /\ OneCall

NextLookup ==
  \/ SearchDrugEnter
  \/ GetGenericNameEnter
  \/ FetchAttempt
  \/ Backoff
  \/ SearchDrugJson
  \/ GetGenericNameJson

SpecLookup == InitLookup /\ [][NextLookup]_vars

(***************************************************************************)
(* A fixed service free of failures: every request is answered with 200    *)
(* and the one document the service has for it.  normalizeDrugName is      *)
(* called twice with the same name, getGenericName once.                   *)
(***************************************************************************)
InitFixed ==
  /\ drugNames = <<>>
  /\ onProgress = "absent"
  /\ config \in { c \in Configs : c.timeout = DefaultTimeout /\ c.retryDelay = DefaultRetryDelay }
  /\ entry \in {"normalize", "getGenericName"}
  /\ phase = "Idle"
  /\ i = 0
  /\ results = <<>>
  /\ progressCalls = <<>>
  /\ pauses = <<>>
  /\ lookups = <<>>
  /\ np = "enter"
  /\ service \in [fixed : {TRUE}, approx : ApproximateBodies, related : RelatedBodies]
  /\ IF entry = "getGenericName"
     THEN /\ drugName = Null
          /\ rxcui \in Identifiers
          /\ service.approx = Body("null", FALSE, FALSE, <<>>)
     ELSE /\ drugName \in Names
          /\ rxcui = Null
  /\ call = "none"
  /\ genericName = Null
  /\ attempt = 0
  /\ lastError = NoError
  /\ normOut = Pending
  /\ netAttempts = 0
  /\ lastOutcome = NoOutcome
  /\ sleeps = <<>>
  /\ fetchEnd = FetchState("none", NoError, NoOutcome)
  /\ callFailure = NoError
  /\ normAttempts = 0
  /\ onlyTimeouts = TRUE
  /\ requestArg = Null
  /\ firstOut = Pending
  /\ callNo = 1
  /\ CsvIdle
  /\ PageIdle

\* the first call of normalizeDrugName has returned: the caller keeps its
\* result and calls again with the same name and configuration
CallAgain ==
  /\ entry = "normalize"
  /\ callNo = 1
  /\ np \in {"returned", "raised"}
  /\ firstOut' = normOut
  /\ callNo' = 2
  /\ np' = "enter"
  /\ UNCHANGED <<service, drugName, call, rxcui, genericName, attempt, lastError, normOut,
                 histVars, inputVars, csvVars, pageVars, batchVars>>

NextFixed ==
  \/ SearchDrugEnter
  \/ GetGenericNameEnter
  \/ FetchAttempt
  \/ SearchDrugJson
  \/ GetGenericNameJson
  \/ CallAgain

SpecFixed == InitFixed /\ [][NextFixed]_vars

(***************************************************************************)
(* One call of validateRxNormAPI, under any configuration.                 *)
(***************************************************************************)
\* the known drug validateRxNormAPI searches for
Aspirin == <<"a", "s", "p", "i", "r", "i", "n">>

InitValidate ==
  /\ drugNames = <<>>
  /\ onProgress = "absent"
  /\ config \in Configs
  /\ entry = "validateRxNormAPI"
  /\ phase = "Idle"
  /\ i = 0
  /\ results = <<>>
  /\ progressCalls = <<>>
  /\ pauses = <<>>
  /\ lookups = <<>>
  /\ np = "enter"
  /\ drugName = Aspirin
  /\ call = "none"
  /\ rxcui = Null
  /\ genericName = Null
  /\ attempt = 0
  /\ lastError = NoError
  /\ normOut = Pending
  /\ netAttempts = 0
  /\ lastOutcome = NoOutcome
  /\ sleeps = <<>>
  /\ fetchEnd = FetchState("none", NoError, NoOutcome)
  /\ callFailure = NoError
  /\ normAttempts = 0
  /\ onlyTimeouts = TRUE
  /\ requestArg = Null
  /\ CsvIdle
  /\ PageIdle
  /\ OneCall

NextValidate ==
  \/ SearchDrugEnter
  \/ FetchAttempt
  \/ Backoff
  \/ SearchDrugJson

SpecValidate == InitValidate /\ [][NextValidate]_vars

(***************************************************************************)
(* normalizeDrugNameBatch.  The phases are those of the batch run: Idle,   *)
(* then Announcing, Resolving, Recorded for each item, then Completed;     *)
(* Raised when an exception leaves the function.  The code between two     *)
(* awaits is cut at the phase changes, which nothing can interleave with.  *)
(***************************************************************************)
\* const total = drugNames.length
total == Len(drugNames)

\* whether this call of the callback throws
CallbackThrows == IF onProgress = "throws" THEN BOOLEAN ELSE {FALSE}

\* if (onProgress) onProgress(completed, total, current)
Progress(completed, current) ==
  IF onProgress = "absent" THEN progressCalls
  ELSE Append(progressCalls, <<completed, total, current>>)

\* a slip: a pause after every item, the last one too
ShouldPause_AfterEach(idx, n) == idx < n

\* the guard of the pause between two items
ShouldPause(idx, n) == idx < n - 1

\* the loop test of normalizeDrugNameBatch
MoreItems(idx, n) == idx < n

\* a slip: no final progress update
FinalUpdate_Silent(thrown) ==
  /\ UNCHANGED progressCalls
  /\ phase' = "Completed"

\* a slip: the final update still names the last item
FinalUpdate_NamesLast(thrown) ==
  /\ progressCalls' = Progress(total, IF total > 0 THEN drugNames[total] ELSE <<>>)
  /\ phase' = IF thrown THEN "Raised" ELSE "Completed"

\* the final progress update and the return
FinalUpdate(thrown) ==
  /\ progressCalls' = Progress(total, <<>>)
  /\ phase' = IF thrown THEN "Raised" ELSE "Completed"

\* the call: results = [], i = 0 and the first loop test
BatchStart ==
  /\ phase = "Idle"
  /\ np = "idle"
  /\ entry \in {"handleNormalize", "Home"} => hn = "awaiting"
  /\ results' = <<>>
  /\ i' = 0
  /\ IF MoreItems(0, total)
     THEN /\ phase' = "Announcing"
          /\ UNCHANGED progressCalls
     ELSE \E thrown \in CallbackThrows : FinalUpdate(thrown)
  /\ UNCHANGED <<pauses, lookups, inputVars, outerVars, normVars, histVars>>

\* a slip: progress reported for the item just finished
Announce_Finished ==
  /\ phase = "Announcing"
  /\ progressCalls' = Progress(i, IF i = 0 THEN <<>> ELSE drugNames[i])
  /\ \E thrown \in CallbackThrows :
       IF thrown
       THEN /\ phase' = "Raised"
            /\ UNCHANGED <<np, drugName, normOut, lookups>>
       ELSE /\ phase' = "Resolving"
            /\ np' = "enter"
            /\ drugName' = drugNames[i + 1]
            /\ normOut' = Pending
            /\ lookups' = Append(lookups, drugNames[i + 1])
  /\ UNCHANGED <<i, results, pauses, call, rxcui, genericName, attempt, lastError,
                 inputVars, outerVars, histVars>>

\* a slip: a name seen before is not looked up again, its result is reused
Announce_Deduplicates ==
  /\ phase = "Announcing"
  /\ progressCalls' = Progress(i, drugNames[i + 1])
  /\ \E thrown \in CallbackThrows :
       IF thrown
       THEN /\ phase' = "Raised"
            /\ UNCHANGED <<np, drugName, normOut, lookups, results>>
       ELSE IF \E j \in 1..i : drugNames[j] = drugNames[i + 1]
            THEN /\ phase' = "Recorded"
                 /\ results' = Append(results,
                       results[CHOOSE j \in 1..i : drugNames[j] = drugNames[i + 1]])
                 /\ UNCHANGED <<np, drugName, normOut, lookups>>
            ELSE /\ phase' = "Resolving"
                 /\ np' = "enter"
                 /\ drugName' = drugNames[i + 1]
                 /\ normOut' = Pending
                 /\ lookups' = Append(lookups, drugNames[i + 1])
                 /\ UNCHANGED results
  /\ UNCHANGED <<i, pauses, call, rxcui, genericName, attempt, lastError,
                 inputVars, outerVars, histVars>>

\* the progress callback for item i, then the call of normalizeDrugName
Announce ==
  /\ phase = "Announcing"
  /\ progressCalls' = Progress(i, drugNames[i + 1])
  /\ \E thrown \in CallbackThrows :
       IF thrown
       THEN /\ phase' = "Raised"
            /\ UNCHANGED <<np, drugName, normOut, lookups>>
       ELSE /\ phase' = "Resolving"
            /\ np' = "enter"
            /\ drugName' = drugNames[i + 1]
            /\ normOut' = Pending
            /\ lookups' = Append(lookups, drugNames[i + 1])
  /\ UNCHANGED <<i, results, pauses, call, rxcui, genericName, attempt, lastError,
                 inputVars, outerVars, histVars>>

\* normalizeDrugName is not running: its locals are gone
NormalizeIdle ==
  /\ np' = "idle"
  /\ drugName' = Null
  /\ call' = "none"
  /\ rxcui' = Null
  /\ genericName' = Null
  /\ attempt' = 0
  /\ lastError' = NoError
  /\ normOut' = Pending
  /\ netAttempts' = 0
  /\ lastOutcome' = NoOutcome
  /\ sleeps' = <<>>
  /\ fetchEnd' = FetchState("none", NoError, NoOutcome)
  /\ callFailure' = NoError
  /\ normAttempts' = 0
  /\ onlyTimeouts' = TRUE
  /\ requestArg' = Null

\* a slip: the promise of normalizeDrugName not awaited
Record_Unawaited ==
  /\ phase = "Resolving"
  /\ results' = Append(results, normOut.value)
  /\ phase' = "Recorded"
  /\ UNCHANGED <<i, progressCalls, pauses, lookups, inputVars, outerVars, normVars, histVars>>

\* a slip: the run gives up at the first item whose lookup failed
Record_RaisesOnError ==
  /\ phase = "Resolving"
  /\ np \in {"returned", "raised"}
  /\ NormalizeIdle
  /\ IF np = "returned" /\ normOut.value.status # NORMALIZATION_STATUS.ERROR
     THEN /\ results' = Append(results, normOut.value)
          /\ phase' = "Recorded"
     ELSE /\ phase' = "Raised"
          /\ UNCHANGED results
  /\ UNCHANGED <<i, progressCalls, pauses, lookups, inputVars, outerVars>>

\* normalizeDrugName settled: results.push(result)
Record ==
  /\ phase = "Resolving"
  /\ np \in {"returned", "raised"}
  /\ NormalizeIdle
  /\ IF np = "returned"
     THEN /\ results' = Append(results, normOut.value)
          /\ phase' = "Recorded"
     ELSE /\ phase' = "Raised"
          /\ UNCHANGED results
  /\ UNCHANGED <<i, progressCalls, pauses, lookups, inputVars, outerVars>>

\* sleep(100) between two items, then i++
Pause ==
  /\ phase = "Recorded"
  /\ ShouldPause(i, Len(drugNames))
  /\ pauses' = Append(pauses, BatchPause)
  /\ i' = i + 1
  /\ phase' = IF MoreItems(i + 1, Len(drugNames)) THEN "Announcing" ELSE "Finishing"
  /\ UNCHANGED <<results, progressCalls, lookups, inputVars, outerVars, normVars, histVars>>

\* after the last item: i++, the loop ends, the final update, the return
Finish ==
  /\ \/ phase = "Recorded" /\ ~ShouldPause(i, Len(drugNames))
     \/ phase = "Finishing"
  /\ i' = IF phase = "Recorded" THEN i + 1 ELSE i
  /\ IF phase = "Recorded" /\ MoreItems(i + 1, Len(drugNames))
     THEN /\ phase' = "Announcing"
          /\ UNCHANGED progressCalls
     ELSE \E thrown \in CallbackThrows : FinalUpdate(thrown)
  /\ UNCHANGED <<results, pauses, lookups, inputVars, outerVars, normVars, histVars>>

\* the call of normalizeDrugNameBatch on names drawn from `names`, under the
\* default configuration
InitBatch(names) ==
  /\ drugNames \in SeqsUpTo(names, MaxNames)
  /\ onProgress \in {"absent", "returns", "throws"}
  /\ config = DEFAULT_RXNORM_CONFIG
  /\ entry = "batch"
  /\ phase = "Idle"
  /\ i = 0
  /\ results = <<>>
  /\ progressCalls = <<>>
  /\ pauses = <<>>
  /\ lookups = <<>>
  /\ np = "idle"
  /\ drugName = Null
  /\ call = "none"
  /\ rxcui = Null
  /\ genericName = Null
  /\ attempt = 0
  /\ lastError = NoError
  /\ normOut = Pending
  /\ netAttempts = 0
  /\ lastOutcome = NoOutcome
  /\ sleeps = <<>>
  /\ fetchEnd = FetchState("none", NoError, NoOutcome)
  /\ callFailure = NoError
  /\ normAttempts = 0
  /\ onlyTimeouts = TRUE
  /\ requestArg = Null
  /\ CsvIdle
  /\ PageIdle
  /\ OneCall

Init == InitBatch(BatchNames)

Next ==
  \/ BatchStart
  \/ Announce
  \/ SearchDrugEnter
  \/ FetchAttempt
  \/ Backoff
  \/ SearchDrugJson
  \/ GetGenericNameJson
  \/ Record
  \/ Pause
  \/ Finish

Spec == Init /\ [][Next]_vars

\* every await of the run settles and the event loop runs every continuation
\* that is ready: a fetch is bounded by its timer and a sleep by its delay;
\* the reading of a body, response.json(), has no timer (fetchWithTimeout
\* clears it once the response is there) and is taken to settle
FairSpec == InitBatch(FairNames) /\ [][Next]_vars /\ WF_vars(Next)

(***************************************************************************)
(* The page: a table is loaded and a column may be selected; the user      *)
(* presses Normalize.  handleNormalize runs to the call of                 *)
(* normalizeDrugNameBatch, awaits the run, and builds the joined table.    *)
(***************************************************************************)
\* the rows of the tables loaded in the page
PageRowPool ==
  { [c \in {DrugColumn} |-> StringCell(<<"a">>)],
    [c \in {DrugColumn} |-> StringCell(<<" ", "a", " ">>)],
    [c \in {DrugColumn} |-> StringCell(<<"b">>)],
    [c \in {DrugColumn} |-> StringCell(<<" ">>)],
    [c \in {DrugColumn} |-> NumberCell(<<"0">>)],
    [c \in {IdColumn} |-> StringCell(<<"5">>)] }

InitPage ==
  /\ drugNames = <<>>
  /\ onProgress = "absent"
  /\ config = DEFAULT_RXNORM_CONFIG
  /\ entry = "handleNormalize"
  /\ phase = "Idle"
  /\ i = 0
  /\ results = <<>>
  /\ progressCalls = <<>>
  /\ pauses = <<>>
  /\ lookups = <<>>
  /\ np = "idle"
  /\ drugName = Null
  /\ call = "none"
  /\ rxcui = Null
  /\ genericName = Null
  /\ attempt = 0
  /\ lastError = NoError
  /\ normOut = Pending
  /\ netAttempts = 0
  /\ lastOutcome = NoOutcome
  /\ sleeps = <<>>
  /\ fetchEnd = FetchState("none", NoError, NoOutcome)
  /\ callFailure = NoError
  /\ normAttempts = 0
  /\ onlyTimeouts = TRUE
  /\ requestArg = Null
  /\ CsvIdle
  /\ OneCall
  /\ csvData \in [loaded : {TRUE}, data : SeqsUpTo(PageRowPool, MaxRows),
                  columns : {<<DrugColumn, IdColumn>>}]
  /\ selectedColumn \in {DrugColumn, <<>>}
  /\ genericMap = <<>>
  /\ normalizedData = NoRows
  /\ processing = FALSE
  /\ uiError = Null
  /\ hn = "idle"
  /\ closure = NoClosure
  /\ loading = EmptyBag

\* handleNormalize up to the call of normalizeDrugNameBatch(uniqueDrugs,
\* callback), with the csvData and selectedColumn of the render it was created
\* in; without a table or a selected column it returns at once, and hn
\* becomes `back`
HandleNormalizeEnter(back) ==
  /\ closure' = [csvData |-> csvData, selectedColumn |-> selectedColumn]
  /\ IF ~csvData.loaded \/ ~Truthy(selectedColumn)
     THEN /\ hn' = back
          /\ UNCHANGED <<processing, uiError, drugNames, onProgress>>
     ELSE /\ processing' = TRUE
          /\ uiError' = Null
          /\ drugNames' = UniqueDrugs(csvData.data, selectedColumn)
          /\ onProgress' = "returns"
          /\ hn' = "awaiting"

\* the run settled: the map is built from the results and the table of the
\* closure joined, or the catch block sets the error; finally processing is
\* reset, and hn becomes `back`
HandleNormalizeSettle(back) ==
  /\ hn = "awaiting"
  /\ phase \in {"Completed", "Raised"}
  /\ IF phase = "Completed"
     THEN /\ normalizedData' =
               [set |-> TRUE,
                rows |-> addGenericNameColumn(closure.csvData.data, closure.selectedColumn,
                                              GenericMapAfter(results, Len(results)))]
          /\ UNCHANGED uiError
     ELSE /\ uiError' = <<"Normalization failed: ", "err">>
          /\ UNCHANGED normalizedData
  /\ processing' = FALSE
  /\ hn' = back

\* one call of handleNormalize
HandleNormalize ==
  /\ entry = "handleNormalize"
  /\ hn = "idle"
  /\ HandleNormalizeEnter("done")
  /\ UNCHANGED <<config, entry, csvData, selectedColumn, genericMap, normalizedData, loading,
                 csvVars, againVars, batchVars, normVars, histVars>>

\* the end of that call, and the map it built
HandleNormalizeDone ==
  /\ entry = "handleNormalize"
  /\ HandleNormalizeSettle("done")
  /\ genericMap' = IF phase = "Completed" THEN GenericMapAfter(results, Len(results))
                   ELSE genericMap
  /\ UNCHANGED <<csvData, selectedColumn, closure, loading, csvVars, againVars, inputVars,
                 batchVars, normVars, histVars>>

NextPage ==
  \/ HandleNormalize
  \/ BatchStart
  \/ Announce
  \/ SearchDrugEnter
  \/ FetchAttempt
  \/ Backoff
  \/ SearchDrugJson
  \/ GetGenericNameJson
  \/ Record
  \/ Pause
  \/ Finish
  \/ HandleNormalizeDone

SpecPage == InitPage /\ [][NextPage]_vars

(***************************************************************************)
(* The page with its user: while no table is loaded the user may press     *)
(* "Try Sample Data" and choose files, any number of times before the      *)
(* first of these calls settles; the calls settle in any order.  With a    *)
(* table loaded the user selects a column, presses Normalize or starts     *)
(* over; with results shown the user may process another file.             *)
(***************************************************************************)
\* the most loadSample and handleFileUpload calls under way at once
MaxLoading == 2

\* /realistic-sample.csv as parsed: a medication column and another one
SampleTable ==
  [loaded |-> TRUE,
   data |-> << [c \in {DrugColumn} |-> StringCell(<<"a">>)] >>,
   columns |-> <<DrugColumn, IdColumn>>]

\* the files the user may choose, as parsed
UploadTables ==
  { [loaded |-> TRUE,
     data |-> << [c \in {IdColumn} |-> StringCell(<<"5">>)],
                 [c \in {IdColumn} |-> StringCell(<<"5">>)] >>,
     columns |-> <<IdColumn>>],
    [loaded |-> TRUE,
     data |-> << [c \in {DrugColumn} |-> StringCell(<<"a">>)],
                 [c \in {DrugColumn} |-> StringCell(<<"b">>)] >>,
     columns |-> <<DrugColumn, IdColumn>>] }

\* a call of loadSample or handleFileUpload under way, and the table its
\* file parses to
Load(handler, parsed) == [handler |-> handler, parsed |-> parsed]

\* {!csvData && (...)}: the sample button and the file input
UploadShown == ~csvData.loaded

\* a slip: the column selection stays while a run is under way
ColumnSelectionShown_WhileProcessing == csvData.loaded /\ ~normalizedData.set

\* {csvData && !normalizedData && !processing && (...)}: the select, the
\* Normalize button and Start Over
ColumnSelectionShown == csvData.loaded /\ ~normalizedData.set /\ ~processing

\* {normalizedData && (...)}: the results, Download and Process Another File
ResultsShown == normalizedData.set

\* the options of the select: "" and the columns of the table
SelectOptions == {<<>>} \cup { csvData.columns[j] : j \in 1..Len(csvData.columns) }

InitHome ==
  /\ drugNames = <<>>
  /\ onProgress = "absent"
  /\ config = DEFAULT_RXNORM_CONFIG
  /\ entry = "Home"
  /\ phase = "Idle"
  /\ i = 0
  /\ results = <<>>
  /\ progressCalls = <<>>
  /\ pauses = <<>>
  /\ lookups = <<>>
  /\ np = "idle"
  /\ drugName = Null
  /\ call = "none"
  /\ rxcui = Null
  /\ genericName = Null
  /\ attempt = 0
  /\ lastError = NoError
  /\ normOut = Pending
  /\ netAttempts = 0
  /\ lastOutcome = NoOutcome
  /\ sleeps = <<>>
  /\ fetchEnd = FetchState("none", NoError, NoOutcome)
  /\ callFailure = NoError
  /\ normAttempts = 0
  /\ onlyTimeouts = TRUE
  /\ requestArg = Null
  /\ CsvIdle
  /\ OneCall
  /\ PageIdle

\* onClick={loadSample}: setError(null), then the fetch of the sample
ClickLoadSample ==
  /\ entry = "Home"
  /\ UploadShown
  /\ BagCardinality(loading) < MaxLoading
  /\ uiError' = Null
  /\ loading' = loading (+) SetToBag({Load("loadSample", SampleTable)})
  /\ UNCHANGED <<csvData, selectedColumn, genericMap, normalizedData, processing, hn, closure,
                 csvVars, againVars, inputVars, batchVars, normVars, histVars>>

\* loadSample after its awaits: the complete callback of Papa.parse sets the
\* table and the detected column, if one was detected; or the fetch failed
\* and the catch block sets the error
LoadSampleComplete ==
  /\ entry = "Home"
  /\ \E load \in BagToSet(loading), ok \in BOOLEAN :
       /\ load.handler = "loadSample"
       /\ loading' = loading (-) SetToBag({load})
       /\ IF ok
          THEN /\ csvData' = load.parsed
               /\ selectedColumn' =
                    IF Truthy(detectMedicationColumn(load.parsed.columns))
                    THEN detectMedicationColumn(load.parsed.columns)
                    ELSE selectedColumn
               /\ UNCHANGED uiError
          ELSE /\ uiError' = <<"Failed to load sample: ", "err">>
               /\ UNCHANGED <<csvData, selectedColumn>>
  /\ UNCHANGED <<genericMap, normalizedData, processing, hn, closure,
                 csvVars, againVars, inputVars, batchVars, normVars, histVars>>

\* onChange={handleFileUpload} with a file chosen: setError(null), then
\* readCSVFile(file)
HandleFileUpload ==
  /\ entry = "Home"
  /\ UploadShown
  /\ BagCardinality(loading) < MaxLoading
  /\ uiError' = Null
  /\ \E parsed \in UploadTables :
       loading' = loading (+) SetToBag({Load("handleFileUpload", parsed)})
  /\ UNCHANGED <<csvData, selectedColumn, genericMap, normalizedData, processing, hn, closure,
                 csvVars, againVars, inputVars, batchVars, normVars, histVars>>

\* handleFileUpload after readCSVFile settled: the table and the detected
\* column are set, or readCSVFile rejected and the catch block sets the error
HandleFileUploadSettled ==
  /\ entry = "Home"
  /\ \E load \in BagToSet(loading), ok \in BOOLEAN :
       /\ load.handler = "handleFileUpload"
       /\ loading' = loading (-) SetToBag({load})
       /\ IF ok
          THEN /\ csvData' = load.parsed
               /\ selectedColumn' =
                    IF Truthy(detectMedicationColumn(load.parsed.columns))
                    THEN detectMedicationColumn(load.parsed.columns)
                    ELSE selectedColumn
               /\ UNCHANGED uiError
          ELSE /\ uiError' = <<"Failed to parse CSV: ", "err">>
               /\ UNCHANGED <<csvData, selectedColumn>>
  /\ UNCHANGED <<genericMap, normalizedData, processing, hn, closure,
                 csvVars, againVars, inputVars, batchVars, normVars, histVars>>

\* the select: onChange={(e) => setSelectedColumn(e.target.value)}
SelectColumn ==
  /\ entry = "Home"
  /\ ColumnSelectionShown
  /\ \E option \in SelectOptions \ {selectedColumn} : selectedColumn' = option
  /\ UNCHANGED <<csvData, genericMap, normalizedData, processing, uiError, hn, closure, loading,
                 csvVars, againVars, inputVars, batchVars, normVars, histVars>>

\* the Normalize button, disabled={!selectedColumn}: handleNormalize is
\* called; were a run under way already, this would be a second one
ClickNormalize ==
  /\ entry = "Home"
  /\ ColumnSelectionShown
  /\ Truthy(selectedColumn)
  /\ IF hn = "awaiting"
     THEN /\ hn' = "second"
          /\ UNCHANGED <<processing, uiError, drugNames, onProgress, closure>>
     ELSE HandleNormalizeEnter("idle")
  /\ UNCHANGED <<config, entry, csvData, selectedColumn, genericMap, normalizedData, loading,
                 csvVars, againVars, batchVars, normVars, histVars>>

\* Start Over
StartOver ==
  /\ entry = "Home"
  /\ ColumnSelectionShown
  /\ csvData' = NoCsvData
  /\ selectedColumn' = <<>>
  /\ uiError' = Null
  /\ UNCHANGED <<genericMap, normalizedData, processing, hn, closure, loading,
                 csvVars, againVars, inputVars, batchVars, normVars, histVars>>

\* Process Another File
ProcessAnotherFile ==
  /\ entry = "Home"
  /\ ResultsShown
  /\ csvData' = NoCsvData
  /\ normalizedData' = NoRows
  /\ selectedColumn' = <<>>
  /\ UNCHANGED <<genericMap, processing, uiError, hn, closure, loading,
                 csvVars, againVars, inputVars, batchVars, normVars, histVars>>

\* handleNormalize after the run settled; the call of normalizeDrugNameBatch
\* is over and its locals are gone
HomeNormalizeSettled ==
  /\ entry = "Home"
  /\ HandleNormalizeSettle("idle")
  /\ closure' = NoClosure
  /\ drugNames' = <<>>
  /\ onProgress' = "absent"
  /\ phase' = "Idle"
  /\ i' = 0
  /\ results' = <<>>
  /\ progressCalls' = <<>>
  /\ pauses' = <<>>
  /\ lookups' = <<>>
  /\ drugName' = Null
  /\ call' = "none"
  /\ rxcui' = Null
  /\ genericName' = Null
  /\ attempt' = 0
  /\ lastError' = NoError
  /\ normOut' = Pending
  /\ netAttempts' = 0
  /\ lastOutcome' = NoOutcome
  /\ sleeps' = <<>>
  /\ fetchEnd' = FetchState("none", NoError, NoOutcome)
  /\ callFailure' = NoError
  /\ normAttempts' = 0
  /\ onlyTimeouts' = TRUE
  /\ requestArg' = Null
  /\ UNCHANGED <<np, config, entry, csvData, selectedColumn, genericMap, loading, csvVars,
                 againVars>>

NextHome ==
  \/ ClickLoadSample
  \/ LoadSampleComplete
  \/ HandleFileUpload
  \/ HandleFileUploadSettled
  \/ SelectColumn
  \/ ClickNormalize
  \/ StartOver
  \/ ProcessAnotherFile
  \/ BatchStart
  \/ Announce
  \/ SearchDrugEnter
  \/ FetchAttempt
  \/ Backoff
  \/ SearchDrugJson
  \/ GetGenericNameJson
  \/ Record
  \/ Pause
  \/ Finish
  \/ HomeNormalizeSettled

SpecHome == InitHome /\ [][NextHome]_vars

\* one call of handleNormalize against a service that may leave a body
\* unfinished
NextPageLive ==
  \/ HandleNormalize
  \/ BatchStart
  \/ Announce
  \/ SearchDrugEnter
  \/ FetchAttempt
  \/ Backoff
  \/ SearchDrugJson
  \/ GetGenericNameJson
  \/ BodyNeverArrives
  \/ Record
  \/ Pause
  \/ Finish
  \/ HandleNormalizeDone

FairPage == InitPage /\ [][NextPageLive]_vars /\ WF_vars(NextPageLive)

(***************************************************************************)
(* The functions of the CSV utilities, each called by itself on arguments  *)
(* held in csvData.data, selectedColumn, genericMap, columns and file.     *)
(***************************************************************************)
\* the rows of the tables
RowPool ==
  { [c \in {IdColumn, DrugColumn} |->
       IF c = IdColumn THEN StringCell(<<"1">>) ELSE StringCell(<<"a">>)],
    [c \in {DrugColumn} |-> StringCell(<<" ", "a", " ">>)],
    [c \in {DrugColumn} |-> StringCell(<<"b">>)],
    [c \in {DrugColumn} |-> StringCell(<<>>)],
    [c \in {DrugColumn} |-> StringCell(<<" ">>)],
    [c \in {DrugColumn} |-> NullCell],
    [c \in {DrugColumn} |-> NumberCell(<<"0">>)],
    [c \in {DrugColumn} |-> NumberCell(<<"7">>)],
    [c \in {IdColumn} |-> StringCell(<<"5">>)],
    [c \in {DrugColumn, GENERIC_NAME_COLUMN} |->
       IF c = DrugColumn THEN StringCell(<<"a">>) ELSE StringCell(<<"o", "l", "d">>)] }

\* the Maps given to addGenericNameColumn
MapPool ==
  { <<>>,
    << <<<<"a">>, <<"g">>>> >>,
    << <<<<"a">>, <<"g">>>>, <<<<"b">>, <<"h">>>> >>,
    << <<<<"a">>, NotFoundText>>, <<<<"7">>, <<"s">>>> >>,
    << <<<<>>, <<"x">>>> >>,
    << <<<<"a">>, <<>>>> >>,
    << <<<<"0">>, <<"z">>>> >> }

\* the column names given to the functions that take one
ColumnPool == { DrugColumn, IdColumn, GENERIC_NAME_COLUMN, <<"X">> }

\* the call of addGenericNameColumn(csvData.data, selectedColumn, genericMap)
InitAddGenericNameColumn ==
  /\ fn = "addGenericNameColumn"
  /\ fnAt = "call"
  /\ csvData \in [loaded : {TRUE}, data : SeqsUpTo(RowPool, MaxRows), columns : {<<>>}]
  /\ selectedColumn \in ColumnPool
  /\ genericMap \in MapPool
  /\ columns = <<>>
  /\ file = NoFile

AddGenericNameColumn ==
  /\ fn = "addGenericNameColumn"
  /\ fnAt = "call"
  /\ normalizedData' =
       [set |-> TRUE, rows |-> addGenericNameColumn(csvData.data, selectedColumn, genericMap)]
  /\ fnAt' = "done"
  /\ UNCHANGED <<fn, columns, detected, extracted, file, csvOut, csvData, selectedColumn,
                 genericMap, processing, uiError, hn, closure, loading, againVars, inputVars,
                 batchVars, normVars, histVars>>

\* the call of extractColumnValues(csvData.data, selectedColumn)
InitExtractColumnValues ==
  /\ fn = "extractColumnValues"
  /\ fnAt = "call"
  /\ csvData \in [loaded : {TRUE}, data : SeqsUpTo(RowPool, MaxRows), columns : {<<>>}]
  /\ selectedColumn \in {DrugColumn, IdColumn}
  /\ genericMap = <<>>
  /\ columns = <<>>
  /\ file = NoFile

ExtractColumnValues ==
  /\ fn = "extractColumnValues"
  /\ fnAt = "call"
  /\ extracted' = extractColumnValues(csvData.data, selectedColumn)
  /\ fnAt' = "done"
  /\ UNCHANGED <<fn, columns, detected, file, csvOut, pageVars, againVars, inputVars,
                 batchVars, normVars, histVars>>

\* most column names explored
MaxColumns == 3

\* the column names of the tables given to detectMedicationColumn
HeaderPool ==
  { <<"D", "r", "u", "g", " ", "N", "a", "m", "e">>,
    <<"N", "A", "M", "E">>,
    <<"M", "E", "D", "S">>,
    <<"I", "d">>,
    <<"d", "r", "u", "g">>,
    <<"R", "x", " ", "D", "a", "t", "e">> }

\* the call of detectMedicationColumn(columns)
InitDetectMedicationColumn ==
  /\ fn = "detectMedicationColumn"
  /\ fnAt = "call"
  /\ columns \in SeqsUpTo(HeaderPool, MaxColumns)
  /\ csvData = NoCsvData
  /\ selectedColumn = <<>>
  /\ genericMap = <<>>
  /\ file = NoFile

DetectMedicationColumn ==
  /\ fn = "detectMedicationColumn"
  /\ fnAt = "call"
  /\ detected' = detectMedicationColumn(columns)
  /\ fnAt' = "done"
  /\ UNCHANGED <<fn, columns, extracted, file, csvOut, pageVars, againVars, inputVars,
                 batchVars, normVars, histVars>>

\* what Papa.parse makes of a file's content
PapaPool ==
  { [failed |-> FALSE, errors |-> FALSE, fields |-> <<DrugColumn>>,
     data |-> << [c \in {DrugColumn} |-> StringCell(<<"a">>)] >>],
    [failed |-> FALSE, errors |-> TRUE, fields |-> <<DrugColumn>>,
     data |-> << [c \in {DrugColumn} |-> StringCell(<<"a">>)] >>],
    [failed |-> FALSE, errors |-> FALSE, fields |-> <<DrugColumn>>, data |-> <<>>],
    [failed |-> FALSE, errors |-> FALSE, fields |-> <<>>,
     data |-> << [c \in {} |-> NullCell] >>],
    [failed |-> TRUE, errors |-> FALSE, fields |-> <<>>, data |-> <<>>] }

\* the File objects given to readCSVFile, and no file
FilePool ==
  [present : {TRUE},
   name : { <<"a", ".", "c", "s", "v">>, <<"A", ".", "C", "S", "V">>, <<"a", ".", "t", "x", "t">>, <<"c", "s", "v">> },
   type : {"text/csv", "text/plain", ""},
   size : {1, MaxFileSize, MaxFileSize + 1},
   readable : BOOLEAN,
   content : { <<>>, <<" ">>, <<"D", "r", "u", "g", "nl", "a">> },
   papa : PapaPool]
  \cup {NoFile}

\* the call of readCSVFile(file)
InitReadCSVFile ==
  /\ fn = "readCSVFile"
  /\ fnAt = "call"
  /\ file \in FilePool
  /\ columns = <<>>
  /\ csvData = NoCsvData
  /\ selectedColumn = <<>>
  /\ genericMap = <<>>

\* readCSVFile up to its first await: a check throws, or file.text() is
\* called
ReadCSVFileEnter ==
  /\ fn = "readCSVFile"
  /\ fnAt = "call"
  /\ csvOut' = ReadCSVFileChecks(file)
  /\ fnAt' = IF ReadCSVFileChecks(file) = CsvPending THEN "text" ELSE "done"
  /\ UNCHANGED <<fn, columns, detected, extracted, file, pageVars, againVars, inputVars,
                 batchVars, normVars, histVars>>

\* file.text() settles: a rejection is wrapped, a content is parsed and the
\* outcome of parseCSV, a CSVProcessingError included, is the call's
ReadCSVFileText ==
  /\ fn = "readCSVFile"
  /\ fnAt = "text"
  /\ csvOut' = IF file.readable THEN parseCSV(file.content, file.papa) ELSE FileReadError
  /\ fnAt' = "done"
  /\ UNCHANGED <<fn, columns, detected, extracted, file, pageVars, againVars, inputVars,
                 batchVars, normVars, histVars>>

\* the lookup client at rest
ClientIdle ==
  /\ drugNames = <<>>
  /\ onProgress = "absent"
  /\ config = DEFAULT_RXNORM_CONFIG
  /\ entry = "none"
  /\ phase = "Idle"
  /\ i = 0
  /\ results = <<>>
  /\ progressCalls = <<>>
  /\ pauses = <<>>
  /\ lookups = <<>>
  /\ np = "idle"
  /\ drugName = Null
  /\ call = "none"
  /\ rxcui = Null
  /\ genericName = Null
  /\ attempt = 0
  /\ lastError = NoError
  /\ normOut = Pending
  /\ netAttempts = 0
  /\ lastOutcome = NoOutcome
  /\ sleeps = <<>>
  /\ fetchEnd = FetchState("none", NoError, NoOutcome)
  /\ callFailure = NoError
  /\ normAttempts = 0
  /\ onlyTimeouts = TRUE
  /\ requestArg = Null
  /\ OneCall

InitCsv ==
  /\ ClientIdle
  /\ detected = Null
  /\ extracted = <<>>
  /\ csvOut = CsvPending
  /\ normalizedData = NoRows
  /\ processing = FALSE
  /\ uiError = Null
  /\ hn = "idle"
  /\ closure = NoClosure
  /\ loading = EmptyBag
  /\ \/ InitAddGenericNameColumn
     \/ InitExtractColumnValues
     \/ InitDetectMedicationColumn
     \/ InitReadCSVFile

NextCsv ==
  \/ AddGenericNameColumn
  \/ ExtractColumnValues
  \/ DetectMedicationColumn
  \/ ReadCSVFileEnter
  \/ ReadCSVFileText

SpecCsv == InitCsv /\ [][NextCsv]_vars

(***************************************************************************)
(* What the claims speak of.                                               *)
(***************************************************************************)
Is4xx(o) == o.kind = "response" /\ o.status >= 400 /\ o.status <= 499
Is2xx(o) == o.kind = "response" /\ o.status >= 200 /\ o.status <= 299
\* a 5xx, a network error or a timeout
IsRetryableFailure(o) ==
  \/ o.kind = "response" /\ o.status >= 500 /\ o.status <= 599
  \/ o.kind = "neterr"
  \/ o.kind = "abort"

IsSuffix(m, whole) ==
  /\ Len(m) <= Len(whole)
  /\ SubSeq(whole, Len(whole) - Len(m) + 1, Len(whole)) = m

FetchOver == fetchEnd.state \in {"returned", "threw"}
Statuses == {"success", "not_found", "error"}

(***************************************************************************)
(* Claims about normalizeDrugNameBatch, under Spec and FairSpec.           *)
(***************************************************************************)
\* C1: a batch of N names (N = 0 and repeated names included) returns exactly
\* N results, the i-th of which carries the i-th input name as originalName,
\* whatever the lookups met; until then the results are those of the items
\* done, in input order.
C1_BatchResultsMatchInput ==
  /\ Len(results) <= Len(drugNames)
  /\ \A k \in 1..Len(results) : results[k].originalName = drugNames[k]
  /\ phase = "Completed" => Len(results) = Len(drugNames)

\* a completed batch of a name given twice, whose two lookups ended differently
C1_Witness ==
  /\ phase = "Completed"
  /\ Len(drugNames) = 2
  /\ drugNames[1] = <<" ", "b", " ">>
  /\ drugNames[2] = drugNames[1]
  /\ Len(results) = 2
  /\ results[1].status = "not_found"
  /\ results[2].status = "success"

\* C2: with a progress callback, a batch of N names calls it exactly N + 1
\* times by the time it returns; the k-th call has completed = k - 1, so the
\* values rise strictly from 0 to N, and every call has total = N.
C2_ProgressCalls ==
  /\ \A k \in 1..Len(progressCalls) :
       /\ progressCalls[k][1] = k - 1
       /\ progressCalls[k][2] = Len(drugNames)
  /\ Len(progressCalls) <= Len(drugNames) + 1
  /\ (phase = "Completed" /\ onProgress # "absent") =>
       /\ Len(progressCalls) = Len(drugNames) + 1
       /\ progressCalls[Len(progressCalls)][1] = Len(drugNames)
  /\ onProgress = "absent" => progressCalls = <<>>

\* a completed batch of two names with a callback: three calls
C2_Witness ==
  /\ phase = "Completed"
  /\ onProgress = "returns"
  /\ Len(drugNames) = 2
  /\ Len(progressCalls) = 3
  /\ progressCalls[3][1] = 2

\* the phase changes of a batch run, item by item in input order
PhaseStep ==
  \/ phase = "Idle" /\ phase' = "Announcing" /\ i' = 0 /\ Len(drugNames) > 0
  \/ phase = "Idle" /\ phase' = "Completed" /\ Len(drugNames) = 0
  \/ phase = "Announcing" /\ phase' = "Resolving" /\ i' = i
       /\ lookups' = Append(lookups, drugNames[i + 1])
  \/ phase = "Resolving" /\ phase' = "Resolving" /\ lookups' = lookups /\ i' = i
  \/ phase = "Resolving" /\ phase' = "Recorded" /\ i' = i
       /\ Len(results') = i + 1
  \/ phase = "Recorded" /\ phase' = "Announcing" /\ i' = i + 1 /\ i' < Len(drugNames)
  \/ phase = "Recorded" /\ phase' = "Completed" /\ i' = Len(drugNames)
  \/ onProgress = "throws" /\ phase' = "Raised"

C3_NormalizeNeverRaises ==
  /\ np # "raised"
  /\ np = "returned" =>
       /\ ~normOut.threw
       /\ normOut.value.originalName = drugName
       /\ normOut.value.status \in Statuses
       /\ callFailure # NoError => normOut.value.status = "error"
  /\ FetchOver /\ fetchEnd.state = "threw" => np = "returned" /\ callFailure # NoError

\* an exception that is not the client's own, turned into an error result
C3_Witness ==
  /\ np = "returned"
  /\ callFailure.name = "URIError"
  /\ normOut.value.status = "error"

\* C5: in every result of normalizeDrugName the status is success exactly
\* when genericName and rxcui are both non-null.
C5_SuccessIffBothPresent ==
  np = "returned" =>
    (normOut.value.status = "success"
       <=> (normOut.value.genericName # Null /\ normOut.value.rxcui # Null))

\* a successful result with both fields
C5_Witness ==
  /\ np = "returned"
  /\ normOut.value.status = "success"
  /\ normOut.value.genericName = <<"g">>
  /\ normOut.value.rxcui = <<"2">>

\* C6: in every result of normalizeDrugName a status of not_found or error
\* comes with a null genericName.
C6_NoNameUnlessSuccess ==
  np = "returned" =>
    (normOut.value.status \in {"not_found", "error"} => normOut.value.genericName = Null)

\* an error result, its genericName null
C6_Witness ==
  /\ np = "returned"
  /\ normOut.value.status = "error"
  /\ normOut.value.genericName = Null
  /\ fetchEnd.state = "threw"

\* C7: a response with a status in 400..499 is never retried: the attempt
\* that received it is the last of the call, which throws that HTTP error,
\* and no backoff wait follows it (one wait between two attempts, no more).
C7_ClientErrorNotRetried ==
  Is4xx(lastOutcome) =>
    /\ fetchEnd.state = "threw"
    /\ fetchEnd.error.code = "HTTP_ERROR"
    /\ fetchEnd.error.statusCode = lastOutcome.status
    /\ np \notin {"fetch", "sleep", "json"}
    /\ Len(sleeps) = netAttempts - 1

\* a 4xx as the first response: one attempt, no wait
C7_Witness ==
  /\ Is4xx(lastOutcome)
  /\ netAttempts = 1
  /\ sleeps = <<>>
  /\ fetchEnd.state = "threw"

\* C8: when all retryAttempts attempts fail with a 5xx, a network error or a
\* timeout, fetchWithRetry throws MAX_RETRIES_EXCEEDED after exactly
\* retryAttempts attempts, not before, and the message of the error ends with
\* the message of the failure of the last attempt.
C8_MaxRetriesExceeded ==
  /\ (fetchEnd.state = "threw" /\ fetchEnd.error.code = "MAX_RETRIES_EXCEEDED")
       => netAttempts = config.retryAttempts
  /\ (IsRetryableFailure(lastOutcome) /\ netAttempts = config.retryAttempts) =>
       /\ fetchEnd.state = "threw"
       /\ fetchEnd.error.code = "MAX_RETRIES_EXCEEDED"
       /\ IsSuffix(AttemptTry(lastOutcome, config).error.message, fetchEnd.error.message)
       /\ Len(fetchEnd.error.message) > Len(AttemptTry(lastOutcome, config).error.message)
  /\ (IsRetryableFailure(lastOutcome) /\ netAttempts < config.retryAttempts) =>
       fetchEnd.state = "active"

\* three attempts under the default configuration, the last one timed out
C8_Witness ==
  /\ config = DEFAULT_RXNORM_CONFIG
  /\ netAttempts = 3
  /\ lastOutcome = Aborted
  /\ fetchEnd.state = "threw"
  /\ fetchEnd.error.code = "MAX_RETRIES_EXCEEDED"
  /\ fetchEnd.error.message =
       <<"Failed after", "3", "attempts:", "Request timeout after", "10000", "ms">>

\* C9: when an attempt within retryAttempts receives a 2xx response, the
\* attempts before it having failed, fetchWithRetry returns that response and
\* makes no further attempt and no further wait.
C9_SuccessEndsRetries ==
  Is2xx(lastOutcome) =>
    /\ fetchEnd.state = "returned"
    /\ fetchEnd.response = lastOutcome
    /\ np \notin {"fetch", "sleep"}
    /\ netAttempts <= config.retryAttempts
    /\ Len(sleeps) = netAttempts - 1

\* a 500 followed by a 200
C9_Witness ==
  /\ netAttempts = 2
  /\ lastError.statusCode = 500
  /\ lastOutcome.status = 200
  /\ fetchEnd.state = "returned"

TimeoutMessage == <<"Request timeout after", ToString(config.timeout), "ms">>

SearchGaveNothing ==
  /\ np = "returned"
  /\ callFailure = NoError
  /\ ~Truthy(rxcui)

\* C13, as stated: when searchDrug yields null the result has status
\* not_found and the errorMessage "not found in vocabulary", and getGenericName
\* is not called.
C13_AsStated ==
  SearchGaveNothing =>
    /\ normOut.value.status = "not_found"
    /\ normOut.value.errorMessage = <<"not found in vocabulary">>
    /\ call = "search"
    /\ normAttempts = netAttempts

\* C13, amended: when searchDrug yields no identifier (null, or a candidate
\* without one) the result has status not_found, null genericName and rxcui
\* and the errorMessage "Drug not found in RxNorm database"; getGenericName is
\* not called: every fetch made is searchDrug's, and a call of getGenericName
\* always has an identifier.
C13_NotFoundInRxNorm ==
  /\ SearchGaveNothing =>
       /\ normOut.value.status = "not_found"
       /\ normOut.value.errorMessage = <<"Drug not found in RxNorm database">>
       /\ normOut.value.originalName = drugName
       /\ normOut.value.genericName = Null
       /\ normOut.value.rxcui = Null
       /\ call = "search"
       /\ normAttempts = netAttempts
       /\ genericName = Null
  /\ call = "related" => Truthy(rxcui)

\* an empty candidate list, after one retry: two fetches, both of searchDrug
C13_Witness ==
  /\ SearchGaveNothing
  /\ rxcui = Null
  /\ call = "search"
  /\ fetchEnd.state = "returned"
  /\ normAttempts = 2
  /\ normOut.value.status = "not_found"

\* getGenericName returned to normalizeDrugName without a name
RelatedGaveNothing ==
  /\ np = "returned"
  /\ call = "related"
  /\ callFailure = NoError
  /\ ~Truthy(genericName)

\* C14, as stated: when searchDrug yields an identifier and getGenericName
\* yields null the result has status not_found and the errorMessage
\* "ingredient not found".
C14_AsStated ==
  RelatedGaveNothing =>
    /\ normOut.value.status = "not_found"
    /\ normOut.value.errorMessage = <<"ingredient not found">>

\* C14, amended: when searchDrug yields an identifier and getGenericName
\* yields no name the result has status not_found, a null genericName, the
\* identifier as rxcui and the errorMessage "Generic name not found for this
\* drug".
C14_GenericNameNotFound ==
  RelatedGaveNothing =>
    /\ normOut.value.status = "not_found"
    /\ normOut.value.errorMessage = <<"Generic name not found for this drug">>
    /\ normOut.value.originalName = drugName
    /\ normOut.value.genericName = Null
    /\ Truthy(rxcui)
    /\ normOut.value.rxcui = rxcui

\* the identifier "2" found, no ingredient group in the answer of related.json
C14_Witness ==
  /\ RelatedGaveNothing
  /\ genericName = Null
  /\ fetchEnd.state = "returned"
  /\ normOut.value.status = "not_found"
  /\ normOut.value.rxcui = <<"2">>

(***************************************************************************)
(* Claims about the three lookups called by themselves, under SpecLookup.  *)
(***************************************************************************)
\* no fetch was made and no wait taken by the function that was called
NoNetworkUse ==
  /\ normAttempts = 0
  /\ netAttempts = 0
  /\ sleeps = <<>>
  /\ fetchEnd.state = "none"
  /\ call = "none"

\* a string (not null) that is empty once trimmed
NothingButSpace(s) == \A k \in 1..Len(s) : s[k] \in Whitespace

\* C15: searchDrug with a name that is empty after trimming throws
\* INVALID_INPUT, and so does getGenericName with an identifier that is empty
\* (or blank), before any fetch and without any retry or wait;
\* normalizeDrugName on such a name returns a result of status error.  No
\* other argument is refused as invalid.
C15_InvalidInputFailsFast ==
  /\ (entry = "searchDrug" /\ NothingButSpace(drugName) /\ np # "enter") =>
       /\ np = "raised"
       /\ normOut = Threw(EmptyNameError)
       /\ NoNetworkUse
  /\ (entry = "getGenericName" /\ NothingButSpace(rxcui) /\ np # "enter") =>
       /\ np = "raised"
       /\ normOut = Threw(EmptyRxcuiError)
       /\ NoNetworkUse
  /\ (entry = "normalize" /\ NothingButSpace(drugName) /\ np # "enter") =>
       /\ np = "returned"
       /\ callFailure = EmptyNameError
       /\ normOut.value.status = "error"
       /\ normOut.value.errorMessage = <<"Drug name cannot be empty">>
       /\ NoNetworkUse
  /\ callFailure.code = "INVALID_INPUT" =>
       /\ np \in {"raised", "returned"}
       /\ IF entry = "getGenericName" THEN NothingButSpace(rxcui)
          ELSE NothingButSpace(drugName) \/ (entry = "normalize" /\ NothingButSpace(rxcui))
       /\ normAttempts = IF call = "none" THEN 0 ELSE netAttempts
       /\ call # "related"

\* searchDrug(" ") has thrown: no fetch was made
C15_Witness ==
  /\ entry = "searchDrug"
  /\ drugName = <<" ">>
  /\ np = "raised"
  /\ normOut.error.code = "INVALID_INPUT"
  /\ normAttempts = 0
  /\ fetchEnd.state = "none"

(***************************************************************************)
(* Claims about the order of events in a batch run, under Spec.            *)
(***************************************************************************)
\* normalizeDrugName is running for an item
LookupRunning == np \in {"enter", "fetch", "sleep", "json"}
\* a remote call, searchDrug's or getGenericName's, is under way
RemoteCallRunning == np \in {"fetch", "sleep", "json"}

\* C16: with a callback, the call for item i is onProgress(i, N, names[i]); it
\* is made when the results of the items before i are recorded and nothing of
\* item i has started, and it has been made whenever normalizeDrugName runs
\* for item i: it names the item about to start, never the one just finished.
C16_ProgressBeforeItem ==
  onProgress # "absent" =>
    /\ \A k \in 1..Len(progressCalls) :
         k <= Len(drugNames) => progressCalls[k] = <<k - 1, Len(drugNames), drugNames[k]>>
    /\ phase = "Announcing" =>
         /\ Len(progressCalls) = i
         /\ Len(results) = i
         /\ Len(lookups) = i
         /\ ~LookupRunning
         /\ normAttempts = 0
    /\ phase \in {"Resolving", "Recorded"} =>
         /\ Len(progressCalls) = i + 1
         /\ progressCalls[i + 1] = <<i, Len(drugNames), drugNames[i + 1]>>
    /\ LookupRunning =>
         /\ Len(results) = i
         /\ Len(progressCalls) = Len(results) + 1
         /\ progressCalls[Len(progressCalls)][3] = drugName
    /\ phase = "Raised" => Len(progressCalls) = Len(results) + 1

\* the first fetch of the second item is about to be made: the callback has
\* named that item, the result of the first is recorded
C16_Witness ==
  /\ onProgress = "returns"
  /\ drugNames = << <<"a">>, <<" ", "b", " ">> >>
  /\ phase = "Resolving"
  /\ np = "fetch"
  /\ normAttempts = 0
  /\ Len(results) = 1
  /\ progressCalls = << <<0, 2, <<"a">> >>, <<1, 2, <<" ", "b", " ">> >> >>

\* C17: with a callback, the call with completed = N is onProgress(N, N, "");
\* it is made when all N results are recorded, the batch returns (or the
\* callback's exception leaves it) right after it, and it is the last call.
C17_FinalProgressCall ==
  onProgress # "absent" =>
    /\ \A k \in 1..Len(progressCalls) :
         progressCalls[k][1] = Len(drugNames) =>
           /\ k = Len(progressCalls)
           /\ progressCalls[k] = <<Len(drugNames), Len(drugNames), <<>> >>
           /\ Len(results) = Len(drugNames)
           /\ phase \in {"Completed", "Raised"}
    /\ phase = "Completed" =>
         /\ Len(progressCalls) = Len(drugNames) + 1
         /\ progressCalls[Len(progressCalls)] = <<Len(drugNames), Len(drugNames), <<>> >>
         /\ Len(results) = Len(drugNames)
         /\ ~LookupRunning

\* a completed batch whose second name is the empty string: the call for that
\* item and the final call both have current = "", and differ in completed
C17_Witness ==
  /\ onProgress = "returns"
  /\ phase = "Completed"
  /\ drugNames = << <<"a">>, <<>> >>
  /\ Len(results) = 2
  /\ progressCalls[2] = <<1, 2, <<>> >>
  /\ progressCalls[3] = <<2, 2, <<>> >>

\* max(N - 1, 0)
PausesOfRun == IF Len(drugNames) = 0 THEN 0 ELSE Len(drugNames) - 1

\* C18: every pause lasts 100 ms; when item i is announced, looked up or
\* recorded exactly i pauses have been made, one after each result before it,
\* so the pause after item i comes after its result and before item i + 1 is
\* announced; none follows the last item: a run that returns made
\* max(N - 1, 0) pauses.
C18_PauseBetweenItems ==
  /\ \A k \in 1..Len(pauses) : pauses[k] = 100
  /\ Len(pauses) <= PausesOfRun
  /\ Len(pauses) <= Len(results)
  /\ phase \in {"Announcing", "Resolving", "Recorded"} => Len(pauses) = i
  /\ phase = "Announcing" => Len(results) = i /\ Len(lookups) = i
  /\ phase = "Recorded" => Len(results) = i + 1
  /\ phase = "Completed" => Len(pauses) = PausesOfRun
  /\ onProgress # "absent" /\ phase # "Raised" /\ phase # "Completed" /\ phase # "Idle" =>
       Len(pauses) = IF phase = "Announcing" THEN Len(progressCalls)
                     ELSE Len(progressCalls) - 1

\* a completed batch of two names: one pause
C18_Witness ==
  /\ phase = "Completed"
  /\ Len(drugNames) = 2
  /\ pauses = <<100>>
  /\ Len(results) = 2

\* C19: at most one remote call is under way: normalizeDrugName runs only in
\* the Resolving phase of its item, whose result is the next to be recorded,
\* so no call for item i + 1 starts before the result of item i is recorded;
\* and getGenericName is called only once searchDrug has returned its
\* identifier.
C19_OneCallAtATime ==
  /\ [](LookupRunning =>
          /\ phase = "Resolving"
          /\ Len(results) = i
          /\ Len(lookups) = i + 1
          /\ drugName = drugNames[i + 1])
  /\ [](phase # "Resolving" => np = "idle" /\ fetchEnd.state = "none")
  /\ []((RemoteCallRunning /\ call = "related") =>
          /\ Truthy(rxcui)
          /\ normAttempts >= netAttempts + 1)
  /\ [][(call' = "related" /\ call # "related") =>
          /\ call = "search"
          /\ np = "json"
          /\ fetchEnd.state = "returned"
          /\ netAttempts' = 0]_vars
  /\ [][(LookupRunning' /\ ~LookupRunning) =>
          /\ np = "idle"
          /\ Len(results) = i
          /\ Len(results) = Len(lookups)]_vars

\* getGenericName's fetch for the second item is pending: the first item's
\* result is recorded, searchDrug's fetch for this item is over
C19_Witness ==
  /\ phase = "Resolving"
  /\ i = 1
  /\ Len(results) = 1
  /\ np = "fetch"
  /\ call = "related"
  /\ netAttempts = 0
  /\ normAttempts = 1
  /\ rxcui = <<"2">>

\* the number of times `x` occurs in `names`
Occurrences(names, x) == Cardinality({ k \in 1..Len(names) : names[k] = x })

\* C20: normalizeDrugName is called once for every element of the input, in
\* input order, whether or not the name was seen before: the names looked up
\* so far are the first elements of the input, and a run that returns has
\* looked up a name given k times k times and has k results for it.
C20_NoDeduplication ==
  /\ Len(lookups) <= Len(drugNames)
  /\ \A k \in 1..Len(lookups) : lookups[k] = drugNames[k]
  /\ Len(results) <= Len(lookups)
  /\ Len(lookups) <= Len(results) + 1
  /\ phase \in {"Resolving", "Recorded"} => Len(lookups) = i + 1
  /\ phase = "Completed" =>
       \A k \in 1..Len(drugNames) :
         /\ Occurrences(lookups, drugNames[k]) = Occurrences(drugNames, drugNames[k])
         /\ Cardinality({ j \in 1..Len(results) : results[j].originalName = drugNames[k] })
              = Occurrences(drugNames, drugNames[k])

\* the name "a" given twice: two lookups, two results
C20_Witness ==
  /\ phase = "Completed"
  /\ drugNames = << <<"a">>, <<"a">> >>
  /\ lookups = << <<"a">>, <<"a">> >>
  /\ Len(results) = 2
  /\ results[1].originalName = <<"a">>
  /\ results[2].originalName = <<"a">>

(***************************************************************************)
(* The CSV utilities.                                                      *)
(***************************************************************************)
\* addGenericNameColumn has returned
JoinDone == fn = "addGenericNameColumn" /\ fnAt = "done" /\ normalizedData.set

\* the trimmed value of the row's cell in the column; none for a row that
\* has no such cell or a null one
TrimmedValue(row, columnName) ==
  IF columnName \notin DOMAIN row \/ row[columnName].type = "null"
  THEN <<>>
  ELSE Trim(row[columnName].text)

\* the key the row is looked up under: its trimmed value, and the empty
\* string for a cell that is missing, null, empty or the number 0
JoinKey(row, columnName) ==
  IF \/ columnName \notin DOMAIN row
     \/ row[columnName].type = "null"
     \/ row[columnName].text = <<>>
     \/ row[columnName] = NumberCell(<<"0">>)
  THEN <<>>
  ELSE Trim(row[columnName].text)

\* C21 as the specification states it: one output row per input row, in
\* order, whose GENERIC_NAME is the map's value for the row's trimmed value,
\* or "NOT_FOUND" when that value is empty, missing or has no entry.
C21_AsStated ==
  JoinDone =>
    /\ Len(normalizedData.rows) = Len(csvData.data)
    /\ \A k \in 1..Len(csvData.data) :
         LET value == TrimmedValue(csvData.data[k], selectedColumn)
         IN normalizedData.rows[k][GENERIC_NAME_COLUMN].text =
              IF value = <<>> \/ ~MapHas(genericMap, value)
              THEN NotFoundText
              ELSE MapGet(genericMap, value)

\* C21, amended: one output row per input row, in order, whose GENERIC_NAME
\* is the map's value under the row's key when the map holds a non-empty
\* value there and "NOT_FOUND" otherwise; the key is the trimmed text of the
\* cell, or the empty string for a missing, null, empty or zero cell.
C21_JoinByTrimmedValue ==
  JoinDone =>
    /\ Len(normalizedData.rows) = Len(csvData.data)
    /\ \A k \in 1..Len(csvData.data) :
         LET key == JoinKey(csvData.data[k], selectedColumn)
         IN normalizedData.rows[k][GENERIC_NAME_COLUMN] =
              StringCell(IF MapHas(genericMap, key) /\ MapGet(genericMap, key) # <<>>
                         THEN MapGet(genericMap, key)
                         ELSE NotFoundText)

\* " a " is joined with the entry of "a", the empty cell gets NOT_FOUND
C21_Witness ==
  /\ JoinDone
  /\ selectedColumn = DrugColumn
  /\ genericMap = << <<<<"a">>, <<"g">>>> >>
  /\ csvData.data = << [c \in {DrugColumn} |-> StringCell(<<" ", "a", " ">>)],
                       [c \in {DrugColumn} |-> StringCell(<<>>)] >>
  /\ normalizedData.rows[1][GENERIC_NAME_COLUMN] = StringCell(<<"g">>)
  /\ normalizedData.rows[2][GENERIC_NAME_COLUMN] = StringCell(NotFoundText)

\* C24: the join preserves the original data: every column of every input
\* row has the same value in the output row at the same position.
C24_OriginalDataPreserved ==
  JoinDone =>
    /\ Len(normalizedData.rows) = Len(csvData.data)
    /\ \A k \in 1..Len(csvData.data) :
         \A c \in DOMAIN csvData.data[k] :
           /\ c \in DOMAIN normalizedData.rows[k]
           /\ normalizedData.rows[k][c] = csvData.data[k][c]

\* extractColumnValues has returned
ExtractDone == fn = "extractColumnValues" /\ fnAt = "done"

\* the rows whose cell in the selected column holds something: not null,
\* not missing, and some text besides white space
RowsWithValue ==
  { k \in 1..Len(csvData.data) :
      /\ selectedColumn \in DOMAIN csvData.data[k]
      /\ csvData.data[k][selectedColumn].type # "null"
      /\ ~NothingButSpace(csvData.data[k][selectedColumn].text) }

\* the first row that holds the value `v`, trimmed
FirstRowOf(v) ==
  Least({ k \in RowsWithValue : Trim(csvData.data[k][selectedColumn].text) = v })

\* C29: extractColumnValues returns each distinct value exactly once,
\* trimmed, in the order of first occurrence, and every returned value is
\* non-empty: null, missing, empty and whitespace-only cells give nothing.
C29_DistinctNonEmptyValues ==
  ExtractDone =>
    /\ \A j, k \in 1..Len(extracted) : j # k => extracted[j] # extracted[k]
    /\ \A j \in 1..Len(extracted) : extracted[j] # <<>> /\ Trim(extracted[j]) = extracted[j]
    /\ { extracted[j] : j \in 1..Len(extracted) }
         = { Trim(csvData.data[k][selectedColumn].text) : k \in RowsWithValue }
    /\ \A j, k \in 1..Len(extracted) :
         (j < k /\ \A n \in {j, k} : \E r \in RowsWithValue :
                      Trim(csvData.data[r][selectedColumn].text) = extracted[n])
           => FirstRowOf(extracted[j]) < FirstRowOf(extracted[k])

\* detectMedicationColumn has returned
DetectDone == fn = "detectMedicationColumn" /\ fnAt = "done"

\* some column is the keyword `q`, or contains it, whatever the case of its
\* letters
KeywordIs(q) ==
  \E j \in 1..Len(columns) : ToLower(columns[j]) = MEDICATION_COLUMN_KEYWORDS[q]
KeywordIn(q) ==
  \E j \in 1..Len(columns) : Includes(ToLower(columns[j]), MEDICATION_COLUMN_KEYWORDS[q])

\* C30: detectMedicationColumn returns null or a column of the list; null
\* exactly when no column contains a keyword, case-insensitively; a column
\* that is a keyword is preferred to one that contains a keyword, and in each
\* pass the first keyword of the list that matches decides.
C30_DetectedColumn ==
  DetectDone =>
    /\ detected = Null \/ \E j \in 1..Len(columns) : columns[j] = detected
    /\ detected = Null <=> \A q \in 1..Len(MEDICATION_COLUMN_KEYWORDS) : ~KeywordIn(q)
    /\ \A q \in 1..Len(MEDICATION_COLUMN_KEYWORDS) :
         (KeywordIs(q) /\ \A p \in 1..(q - 1) : ~KeywordIs(p))
           => ToLower(detected) = MEDICATION_COLUMN_KEYWORDS[q]
    /\ (\A q \in 1..Len(MEDICATION_COLUMN_KEYWORDS) : ~KeywordIs(q))
         => \A q \in 1..Len(MEDICATION_COLUMN_KEYWORDS) :
              (KeywordIn(q) /\ \A p \in 1..(q - 1) : ~KeywordIn(p))
                => \E j \in 1..Len(columns) :
                     /\ columns[j] = detected
                     /\ Includes(ToLower(columns[j]), MEDICATION_COLUMN_KEYWORDS[q])
                     /\ \A n \in 1..(j - 1) :
                          ~Includes(ToLower(columns[n]), MEDICATION_COLUMN_KEYWORDS[q])

\* "NAME" is the keyword name and is chosen, though "Drug Name" stands
\* before it and contains the earlier keyword drug
C30_Witness ==
  /\ DetectDone
  /\ columns = << <<"D", "r", "u", "g", " ", "N", "a", "m", "e">>, <<"N", "A", "M", "E">> >>
  /\ detected = <<"N", "A", "M", "E">>

\* C27: readCSVFile accepts .csv files only: a file whose name does not end
\* in .csv (in either case of the letters) is rejected with
\* INVALID_FILE_TYPE, and its content is neither read nor parsed.
C27_CsvOnly ==
  (fn = "readCSVFile" /\ file.present /\ ~EndsWith(ToLower(file.name), CsvSuffix))
    => \/ fnAt = "call"
       \/ fnAt = "done" /\ csvOut.state = "threw" /\ csvOut.code = "INVALID_FILE_TYPE"

(***************************************************************************)
(* validateRxNormAPI.                                                      *)
(***************************************************************************)
\* C28: validateRxNormAPI never raises, and returns true if the API is
\* reachable and false otherwise: true exactly when the service answered
\* the request with a successful response.
C28_TrueWhenReachable ==
  (entry = "validateRxNormAPI" /\ np \in {"returned", "raised"}) =>
    /\ np = "returned"
    /\ ~normOut.threw
    /\ normOut.value \in {TrueValue, FalseValue}
    /\ normOut.value = TrueValue <=> fetchEnd.state = "returned"

(***************************************************************************)
(* A fixed service.                                                        *)
(***************************************************************************)
\* C25: given a fixed, deterministic service free of failures, two calls of
\* normalizeDrugName with the same name give the same status and the same
\* genericName.
C25_SameResultTwice ==
  (entry = "normalize" /\ service.fixed /\ callNo = 2 /\ np \in {"returned", "raised"}) =>
    /\ np = "returned"
    /\ ~normOut.threw /\ ~firstOut.threw
    /\ normOut.value.status = firstOut.value.status
    /\ normOut.value.genericName = firstOut.value.genericName

\* the second call has returned the generic name "g", as the first did
C25_Witness ==
  /\ entry = "normalize"
  /\ service.fixed
  /\ callNo = 2
  /\ np = "returned"
  /\ config.retryAttempts = DefaultRetryAttempts
  /\ firstOut.value.status = NORMALIZATION_STATUS.SUCCESS
  /\ normOut.value.status = NORMALIZATION_STATUS.SUCCESS
  /\ normOut.value.genericName = <<"g">>

\* the concept groups of the document the service has for related.json
GroupsOfService ==
  IF service.related.group /\ service.related.listed THEN service.related.items ELSE <<>>
\* the positions of those with tty IN
IngredientGroups == { k \in 1..Len(GroupsOfService) : GroupsOfService[k].tty = "IN" }

\* C26: getGenericName returns null when the response has no concept group
\* with tty IN or that group has no entries, and otherwise the name of the
\* first entry of the (first) IN group.
C26_FirstIngredientName ==
  (/\ entry = "getGenericName"
   /\ service.fixed
   /\ service.related.kind = "json"
   /\ fetchEnd.state = "returned"
   /\ np \in {"returned", "raised"}) =>
    /\ np = "returned"
    /\ ~normOut.threw
    /\ normOut.value =
         IF IngredientGroups = {} THEN Null
         ELSE LET group == GroupsOfService[Least(IngredientGroups)]
              IN IF ~group.hasProps \/ group.props = <<>> THEN Null ELSE group.props[1]

\* a brand-name group, then the IN group with the entries "g" and "h": "g"
C26_Witness ==
  /\ entry = "getGenericName"
  /\ np = "returned"
  /\ service.related = Body("json", TRUE, TRUE,
                            << ConceptGroup("BN", TRUE, << <<"x">> >>),
                               ConceptGroup("IN", TRUE, << <<"g">>, <<"h">> >>) >>)
  /\ normOut.value = <<"g">>

(***************************************************************************)
(* The page.                                                               *)
(***************************************************************************)
\* handleNormalize has set the joined table
NormalizeDone == entry = "handleNormalize" /\ hn = "done" /\ normalizedData.set

\* the result of the run for the name `v`, if it has one
ResultsFor(v) == { k \in 1..Len(results) : results[k].originalName = v }

\* C22: the names passed to the batch run are the distinct non-empty trimmed
\* values of the selected column, each looked up once; the output has one
\* row per row of the table; the GENERIC_NAME of a row is a function of its
\* trimmed raw string alone: the generic name of that string's result when
\* the result is a success, "NOT_FOUND" otherwise.
C22_EndToEnd ==
  ((entry = "handleNormalize" /\ hn = "awaiting") \/ NormalizeDone) =>
    /\ \A j, k \in 1..Len(drugNames) : j # k => drugNames[j] # drugNames[k]
    /\ { drugNames[k] : k \in 1..Len(drugNames) }
         = { JoinKey(csvData.data[k], selectedColumn) : k \in 1..Len(csvData.data) } \ { <<>> }
    /\ \A k \in 1..Len(lookups) : Occurrences(lookups, lookups[k]) = 1
    /\ NormalizeDone =>
         /\ lookups = drugNames
         /\ Len(normalizedData.rows) = Len(csvData.data)
         /\ \A k \in 1..Len(csvData.data) :
              LET raw == JoinKey(csvData.data[k], selectedColumn)
                  succeeded == { j \in ResultsFor(raw) :
                                   results[j].status = NORMALIZATION_STATUS.SUCCESS }
              IN normalizedData.rows[k][GENERIC_NAME_COLUMN] =
                   StringCell(IF succeeded = {} THEN NotFoundText
                              ELSE results[CHOOSE j \in succeeded : TRUE].genericName)

\* " a " and "a" are one name, looked up once and found: both rows get its
\* generic name
C22_Witness ==
  /\ NormalizeDone
  /\ csvData.data = << [c \in {DrugColumn} |-> StringCell(<<" ", "a", " ">>)],
                       [c \in {DrugColumn} |-> StringCell(<<"a">>)] >>
  /\ drugNames = << <<"a">> >>
  /\ lookups = << <<"a">> >>
  /\ results[1].status = NORMALIZATION_STATUS.SUCCESS
  /\ normalizedData.rows[1][GENERIC_NAME_COLUMN] = StringCell(<<"g">>)
  /\ normalizedData.rows[2][GENERIC_NAME_COLUMN] = StringCell(<<"g">>)

\* C23: after the batch run completes in handleNormalize, the map has an
\* entry for every name passed to normalizeDrugNameBatch, whatever the
\* outcomes of the lookups were.
C23_EntryForEveryName ==
  NormalizeDone =>
    /\ \A k \in 1..Len(drugNames) : MapHas(genericMap, drugNames[k])
    /\ Len(genericMap) = Len(drugNames)

\* two names, the first not found and the second failed: both have an entry
C23_Witness ==
  /\ NormalizeDone
  /\ drugNames = << <<"a">>, <<"b">> >>
  /\ results[1].status = NORMALIZATION_STATUS.NOT_FOUND
  /\ results[2].status = NORMALIZATION_STATUS.ERROR
  /\ genericMap = << << <<"a">>, NotFoundText >>, << <<"b">>, NotFoundText >> >>

(***************************************************************************)
(* The two remote calls of normalizeDrugName.                              *)
(***************************************************************************)
\* getGenericName was called by this normalizeDrugName: its request was
\* started, or its guard refused the identifier
IngredientLookupMade == call = "related" \/ callFailure = EmptyRxcuiError

\* C31: the ingredient lookup starts only at the return of the identifier
\* lookup, after a completed exchange, and only with an identifier that is
\* not null; its request carries exactly that identifier; it is not made
\* when the identifier lookup returned null or failed.
C31_ComposedInOrder ==
  /\ [](entry = "normalize" =>
          /\ IngredientLookupMade => (rxcui # Null /\ rxcui # Undefined /\ rxcui # <<>>)
          /\ call = "related" => requestArg = rxcui
          /\ (np \in {"returned", "raised"} /\ (rxcui = Null \/ call # "related"))
               => (normAttempts = netAttempts /\ genericName = Null))
  /\ [][(entry = "normalize" /\ call # "related" /\ call' = "related") =>
          /\ np = "json"
          /\ call = "search"
          /\ fetchEnd.state = "returned"
          /\ rxcui = Null
          /\ requestArg' = rxcui']_vars

\* the request of the ingredient lookup is pending, for the identifier "2"
\* the identifier lookup returned after two attempts
C31_Witness ==
  /\ entry = "normalize"
  /\ call = "related"
  /\ np = "fetch"
  /\ netAttempts = 0
  /\ normAttempts = 2
  /\ rxcui = <<"2">>
  /\ requestArg = <<"2">>

\* what the reading of a body can throw
BodyErrors ==
  { JsonError(b) : b \in ApproximateBodies } \cup { JsonError(b) : b \in RelatedBodies }

\* `wrapped` is an RxNormAPIError of code UNKNOWN_ERROR whose message ends
\* with the message of `cause`
WrapsAsUnknown(wrapped, cause) ==
  /\ wrapped.name = "RxNormAPIError"
  /\ wrapped.code = "UNKNOWN_ERROR"
  /\ Len(wrapped.message) > Len(cause.message)
  /\ SubSeq(wrapped.message, Len(wrapped.message) - Len(cause.message) + 1,
            Len(wrapped.message)) = cause.message

\* C32: an exception that is not an RxNormAPIError, raised in searchDrug or
\* getGenericName once fetchWithRetry has returned the response (a body that
\* cannot be decoded, a body that is null), leaves the function as an
\* UNKNOWN_ERROR whose message carries the message of the exception; the
\* request is not made again and no wait is taken.
C32_UnknownErrorNotRetried ==
  [][(/\ entry \in {"searchDrug", "getGenericName"}
      /\ np = "json"
      /\ np' # "json")
       => /\ np' \in {"returned", "raised"}
          /\ netAttempts' = netAttempts
          /\ normAttempts' = normAttempts
          /\ sleeps' = sleeps
          /\ fetchEnd' = fetchEnd
          /\ np' = "raised" =>
               /\ normOut'.threw
               /\ normOut'.error = callFailure'
               /\ \E cause \in BodyErrors : WrapsAsUnknown(callFailure', cause)
               /\ callFailure'.drugName = (IF call = "search" THEN drugName ELSE Undefined)]_vars

\* searchDrug got its response at the second attempt, could not decode the
\* body and threw UNKNOWN_ERROR; two attempts were made in all
C32_Witness ==
  /\ entry = "searchDrug"
  /\ np = "raised"
  /\ fetchEnd.state = "returned"
  /\ netAttempts = 2
  /\ callFailure.code = "UNKNOWN_ERROR"
  /\ callFailure.message =
       <<"Unexpected error searching for drug:", "SyntaxError", ":", "Unexpected token">>

\* C33: under a configuration with retryAttempts >= 1 every remote call
\* makes at least one and at most retryAttempts network attempts, one call
\* of normalizeDrugName at most twice as many, and the call terminates once
\* each of its attempts has: every call that is started settles.
C33_BoundedAndTerminates ==
  /\ [](config.retryAttempts >= 1 =>
          /\ netAttempts <= config.retryAttempts
          /\ normAttempts <= 2 * config.retryAttempts
          /\ fetchEnd.state \in {"returned", "threw"} => netAttempts >= 1)
  /\ config.retryAttempts >= 1 => <>(np \in {"returned", "raised"})

\* getGenericName returned to normalizeDrugName, with a name or without
IngredientLookupReturned ==
  /\ call = "related"
  /\ fetchEnd.state = "returned"
  /\ callFailure = NoError

\* C34: the rxcui of a result is non-null exactly when the identifier lookup
\* returned an identifier and the ingredient lookup then returned normally
\* (success, or not_found at the ingredient step), and it is then that
\* identifier; it is null for not_found at the identifier step and for
\* every error result, an error of the ingredient lookup included.
C34_RxcuiOfResult ==
  (entry = "normalize" /\ np \in {"returned", "raised"}) =>
    /\ np = "returned"
    /\ normOut.value.rxcui # Null <=> IngredientLookupReturned
    /\ IngredientLookupReturned =>
         /\ normOut.value.rxcui = rxcui
         /\ rxcui \notin {Null, Undefined, <<>>}
         /\ normOut.value.status
              \in {NORMALIZATION_STATUS.SUCCESS, NORMALIZATION_STATUS.NOT_FOUND}
    /\ normOut.value.status = NORMALIZATION_STATUS.ERROR => normOut.value.rxcui = Null
    /\ (normOut.value.status = NORMALIZATION_STATUS.NOT_FOUND /\ call = "search")
         => normOut.value.rxcui = Null

\* the identifier "2" was obtained, the ingredient lookup then failed with
\* a 4xx status: an error result without identifier
C34_Witness ==
  /\ entry = "normalize"
  /\ np = "returned"
  /\ call = "related"
  /\ rxcui = <<"2">>
  /\ callFailure.code = "HTTP_ERROR"
  /\ normOut.value.status = NORMALIZATION_STATUS.ERROR
  /\ normOut.value.rxcui = Null

(***************************************************************************)
(* Exceptions of the batch run.                                            *)
(***************************************************************************)
\* C35: normalizeDrugNameBatch raises only when the progress callback
\* raises: the exception leaves at that call of the callback, with no lookup
\* running; no lookup is started afterwards and the function returns no
\* list, the results gathered so far stay behind.
C35_RaisesOnlyFromCallback ==
  /\ [](phase = "Raised" =>
          /\ onProgress = "throws"
          /\ np = "idle"
          /\ Len(lookups) = Len(results)
          /\ Len(results) = i
          /\ Len(progressCalls) = i + 1)
  /\ [][(phase # "Raised" /\ phase' = "Raised") =>
          /\ onProgress = "throws"
          /\ progressCalls' # progressCalls
          /\ np = "idle"
          /\ lookups' = lookups
          /\ results' = results]_vars
  /\ [][phase = "Raised" => vars' = vars]_vars

\* the callback raised when called for the second item: one result had been
\* gathered, the second name was never looked up
C35_Witness ==
  /\ phase = "Raised"
  /\ Len(drugNames) = 2
  /\ i = 1
  /\ Len(results) = 1
  /\ lookups = << drugNames[1] >>
  /\ Len(progressCalls) = 2

(***************************************************************************)
(* The page under interleavings of its handlers and the user.              *)
(***************************************************************************)
\* a call of handleNormalize passes its guard and starts a run
RunStarts == hn # "awaiting" /\ hn' = "awaiting"

\* C36: whenever a table is loaded, the selected column is "" or one of
\* the columns of that table; and a run is only started with a selected
\* column that is not "".
C36_SelectedColumnOfTable ==
  /\ [](csvData.loaded =>
          (selectedColumn = <<>>
             \/ \E j \in 1..Len(csvData.columns) : csvData.columns[j] = selectedColumn))
  /\ [][RunStarts => (selectedColumn # <<>> /\ closure'.selectedColumn # <<>>)]_vars

\* C37: whenever normalizedData is set, a table is loaded and normalizedData
\* is that table with GENERIC_NAME added: one row per row of csvData.data,
\* each with the cells of its row.
C37_ResultsOfCurrentTable ==
  normalizedData.set =>
    /\ csvData.loaded
    /\ Len(normalizedData.rows) = Len(csvData.data)
    /\ \A j \in 1..Len(csvData.data) :
         \A c \in DOMAIN csvData.data[j] :
           c # GENERIC_NAME_COLUMN =>
             /\ c \in DOMAIN normalizedData.rows[j]
             /\ normalizedData.rows[j][c] = csvData.data[j][c]

\* C38: at most one run is under way at any time.  While processing is set
\* the run of handleNormalize is the one awaited, a table is loaded and no
\* results are shown, so that neither the upload section nor the column
\* selection nor the results section is rendered: no step starts a run or a
\* load or drops the table, and only that run reports progress.
C38_OneRunInFlight ==
  /\ [](hn # "second")
  /\ []((entry = "Home" /\ processing) =>
          /\ hn = "awaiting"
          /\ csvData.loaded
          /\ ~normalizedData.set)
  /\ [][(entry = "Home" /\ processing) =>
          /\ ~(hn' = "awaiting" /\ closure' # closure)
          /\ csvData'.loaded
          /\ \A load \in BagToSet(loading') :
               CopiesIn(load, loading') <= CopiesIn(load, loading)]_vars
  /\ [][(entry = "Home" /\ progressCalls' # progressCalls) =>
          (processing /\ hn = "awaiting")]_vars

\* a run is looking up its first name while a file chosen earlier is still
\* being read
C38_Witness ==
  /\ entry = "Home"
  /\ processing
  /\ hn = "awaiting"
  /\ phase = "Resolving"
  /\ Len(progressCalls) = 1
  /\ BagCardinality(loading) = 1

(***************************************************************************)
(* The processing flag of handleNormalize.                                 *)
(***************************************************************************)
\* C39: processing is set exactly while the run handleNormalize started is
\* awaited; every run that was started comes to its end and processing is
\* reset; when the run ended with an exception normalizedData is as it was
\* and the error message is set.
C39_ProcessingWhileInFlight ==
  /\ [](entry = "handleNormalize" => (processing <=> hn = "awaiting"))
  /\ [][(entry = "handleNormalize" /\ hn = "awaiting" /\ hn' # "awaiting"
           /\ phase = "Raised") =>
          (normalizedData' = normalizedData /\ uiError' # Null)]_vars
  /\ ((entry = "handleNormalize" /\ processing) ~> ~processing)

====
